---- MODULE Spec2Model ----
(***************************************************************************)
(* Model of the streaming YML (Yandex Market XML) parser of market_xml:    *)
(* src/src/parser.rs, MarketXmlParser.  The tokenizer (quick_xml) is the   *)
(* environment: a stream is the sequence of events it delivers, held in    *)
(* `input`.  One action, NextItem, is one call of next_item.  The driver,   *)
(* src/src/main.rs, main, is modelled by the actions MainLoop and MainExit *)
(* of SpecMain; the other specifications are the parser under any caller.  *)
(*                                                                         *)
(* Representation.                                                         *)
(*   - A byte string (attribute value, text) is a sequence of one-symbol   *)
(*     strings: <<"1","8">> is "18".  BadByte stands for a byte sequence   *)
(*     that is not valid UTF-8.                                            *)
(*   - A tag or attribute name is a TLA+ string (names are ASCII).         *)
(*   - Option<T> is a sequence of length 0 (None) or 1 (Some).             *)
(*   - A position (line, column) is abstracted to the number of events     *)
(*     the tokenizer has delivered.                                        *)
(***************************************************************************)
EXTENDS Integers, Sequences, FiniteSets, TLC

VARIABLES
    input,        \* the tokenizer's event stream for this run (never changes)
    pos,          \* xml_reader: number of events delivered so far
    buf,          \* self.buf: number of events whose raw bytes the buffer holds
    state,        \* self.state
    yml_catalog,  \* self.yml_catalog
    calls,        \* history: one record per finished next_item call: the state
                  \* before and after, the tokenizer positions from and to, the
                  \* catalog it left, what it returned, its state assignments
    opts,         \* main: the command line options (Opts)
    main,         \* main: its position (pc) and its local variables
    output_dir    \* main: the files written below opts.output_dir

vars == <<input, pos, buf, state, yml_catalog, calls, opts, main, output_dir>>

----------------------------------------------------------------------------
(* Bounds of the model.                                                    *)

\* next_item calls recorded per run
MaxCalls == 7
\* offer elements per generated offers block
MaxOffers == 2
\* shop elements per generated catalog
MaxShops == 2
\* child elements per generated nested list
MaxChildren == 2
\* offer elements per feed given to the driver
MaxMainOffers == 3
\* largest --offers-chunk given to the driver
MaxChunk == 2
\* list and barcode/param elements per generated record
MaxFields == 3

----------------------------------------------------------------------------
(* Byte strings.                                                           *)

BadByte == "xFF"
Replacement == "uFFFD"
WhiteSpace == {" ", "\n"}
Digits == <<"0", "1", "2", "3", "4", "5", "6", "7", "8", "9">>

IsDigit(ch) == \E i \in 1..10 : Digits[i] = ch
DigitVal(ch) == (CHOOSE i \in 1..10 : Digits[i] = ch) - 1

\* str::from_utf8(v).is_ok()
ValidUtf8(v) == \A i \in 1..Len(v) : v[i] # BadByte

\* String::from_utf8_lossy(v)
Lossy(v) == [i \in 1..Len(v) |-> IF v[i] = BadByte THEN Replacement ELSE v[i]]

RECURSIVE TrimStart(_)
TrimStart(s) ==
    IF s # <<>> /\ Head(s) \in WhiteSpace THEN TrimStart(Tail(s)) ELSE s

RECURSIVE TrimEnd(_)
TrimEnd(s) ==
    IF s # <<>> /\ s[Len(s)] \in WhiteSpace
    THEN TrimEnd(SubSeq(s, 1, Len(s) - 1))
    ELSE s

\* str::trim
Trim(s) == TrimEnd(TrimStart(s))

AllDigits(s) == \A i \in 1..Len(s) : IsDigit(s[i])

RECURSIVE DigitsValue(_)
DigitsValue(s) ==
    IF s = <<>> THEN 0
    ELSE 10 * DigitsValue(SubSeq(s, 1, Len(s) - 1)) + DigitVal(s[Len(s)])

\* <unsigned integer>::from_str: an optional "+", then one or more digits.
\* The result is an Option.
UIntDigits(d) == IF d # <<>> /\ AllDigits(d) THEN <<DigitsValue(d)>> ELSE <<>>

ParseUInt(s) == UIntDigits(IF s # <<>> /\ Head(s) = "+" THEN Tail(s) ELSE s)

\* bool::from_str: exactly "true" or "false".
ParseBool(s) ==
    IF s = <<"t", "r", "u", "e">> THEN <<TRUE>>
    ELSE IF s = <<"f", "a", "l", "s", "e">> THEN <<FALSE>>
    ELSE <<>>

RECURSIVE Normal(_, _)
\* the decimal num * 10^exp10 with no trailing zero in num
Normal(num, exp10) ==
    IF num = 0 THEN [num |-> 0, exp10 |-> 0]
    ELSE IF num % 10 = 0 THEN Normal(num \div 10, exp10 + 1)
    ELSE [num |-> num, exp10 |-> exp10]

FirstIndex(s, chars) ==
    IF \E i \in 1..Len(s) : s[i] \in chars
    THEN CHOOSE i \in 1..Len(s) : s[i] \in chars /\ \A j \in 1..(i - 1) : s[j] \notin chars
    ELSE 0

Signed(neg, n) == IF neg THEN 0 - n ELSE n
Unsigned(s) == IF s # <<>> /\ Head(s) \in {"+", "-"} THEN Tail(s) ELSE s
IsNeg(s) == s # <<>> /\ Head(s) = "-"

\* the exponent part: [sign] digits, Some(value) or None
F32Exponent(expo) ==
    IF Unsigned(expo) # <<>> /\ AllDigits(Unsigned(expo))
    THEN <<Signed(IsNeg(expo), DigitsValue(Unsigned(expo)))>>
    ELSE <<>>

\* the mantissa, cut at `dot` (0: no dot), times 10^ev
F32Mantissa(neg, mant, dot, ev) ==
    LET Parts(ip, fp) ==
            IF AllDigits(ip) /\ AllDigits(fp) /\ Len(ip) + Len(fp) > 0
            THEN <<Normal(Signed(neg, DigitsValue(ip \o fp)), ev - Len(fp))>>
            ELSE <<>>
    IN  IF dot = 0 THEN Parts(mant, <<>>)
        ELSE Parts(SubSeq(mant, 1, dot - 1), SubSeq(mant, dot + 1, Len(mant)))

\* the unsigned number, cut at the exponent mark `e` (0: no exponent)
F32Body(neg, body, e) ==
    LET WithExp(mant, ex) ==
            IF ex = <<>> THEN <<>>
            ELSE F32Mantissa(neg, mant, FirstIndex(mant, {"."}), ex[1])
    IN  IF e = 0 THEN F32Mantissa(neg, body, FirstIndex(body, {"."}), 0)
        ELSE WithExp(SubSeq(body, 1, e - 1),
                     F32Exponent(SubSeq(body, e + 1, Len(body))))

\* f32::from_str on the decimal grammar
\*   [sign] (digits | digits "." [digits] | "." digits) [("e"|"E") [sign] digits];
\* the value is kept as an exact decimal (binary rounding is not modelled);
\* "inf", "infinity" and "nan" are not in the alphabet of the generated feeds.
ParseF32(s) == F32Body(IsNeg(s), Unsigned(s), FirstIndex(Unsigned(s), {"e", "E"}))

\* T::from_str for the three target types the parser reads
Parse(ty, s) ==
    CASE ty = "uint" -> ParseUInt(s)
      [] ty = "bool" -> ParseBool(s)
      [] ty = "f32"  -> ParseF32(s)

----------------------------------------------------------------------------
(* The tokenizer's events (quick_xml::events::Event) and attributes.       *)

A(k, v) == [key |-> k, value |-> v, bad |-> FALSE]
\* an attribute the tokenizer's attribute iterator reports as malformed
BadAttr == [key |-> "", value |-> <<>>, bad |-> TRUE]

Ev(t, n, a, x) == [type |-> t, name |-> n, attrs |-> a, text |-> x]
St(n, a) == Ev("Start", n, a, <<>>)
Em(n, a) == Ev("Empty", n, a, <<>>)
En(n) == Ev("End", n, <<>>, <<>>)
Tx(x) == Ev("Text", "", <<>>, x)
CD(x) == Ev("CData", "", <<>>, x)
Cm == Ev("Comment", "", <<>>, <<>>)
Decl == Ev("Decl", "", <<>>, <<>>)
\* markup the tokenizer rejects: read_event returns Err
Malformed == Ev("Error", "", <<>>, <<>>)
EofEvent == Ev("Eof", "", <<>>, <<>>)

----------------------------------------------------------------------------
(* Errors (MarketXmlError) and results.  A reader context c is the pair    *)
(* [pos, buf] of the tokenizer position and the scratch buffer.            *)

MkErr(k, src, tg, m, v, c) ==
    [kind |-> k, source |-> src, tag |-> tg, msg |-> m, value |-> v,
     line |-> c.pos, column |-> c.pos]

XmlErr(src, c) == MkErr("Xml", src, "", "", <<>>, c)
UnexpectedTagErr(tg, c) == MkErr("UnexpectedTag", "", tg, "", <<>>, c)
InvalidUtf8Err(v, c) == MkErr("InvalidUtf8", "", "", "invalid utf-8", Lossy(v), c)
ValidationErr(m, v, c) == MkErr("Validation", "", "", m, v, c)

\* variant of ErrValue: InvalidUtf8 yields its value field too
ErrValueOfInvalidUtf8(e) ==
    CASE e.kind = "Xml" -> <<>>
      [] e.kind = "UnexpectedTag" -> <<e.tag>>
      [] e.kind = "InvalidUtf8" -> <<e.value>>
      [] e.kind = "Validation" -> <<e.value>>

\* MarketXmlError::value
ErrValue(e) ==
    CASE e.kind = "Xml" -> <<>>
      [] e.kind = "UnexpectedTag" -> <<e.tag>>
      [] e.kind = "InvalidUtf8" -> <<>>
      [] e.kind = "Validation" -> <<e.value>>

Ok(c, v) == [c |-> c, err |-> <<>>, val |-> v]
Fail(c, e) == [c |-> c, err |-> <<e>>, val |-> <<>>]
IsErr(r) == r.err # <<>>

\* `let x = r?; K(x)`: an error is passed on, a value is handed to K
Then(r, K(_)) == IF IsErr(r) THEN r ELSE K(r)

\* read_event, then the position and buffer it leaves: the event's raw bytes
\* are appended to self.buf; at the end of the stream it keeps returning Eof
Delivered(e, c, c2) ==
    IF e.type = "Error"
    THEN [ev |-> e, c |-> c2, err |-> <<XmlErr("tokenizer", c)>>]
    ELSE [ev |-> e, c |-> c2, err |-> <<>>]

\* next_event; a tokenizer error carries the position read before the call
NextEvent(c) ==
    IF c.pos < Len(input)
    THEN Delivered(input[c.pos + 1], c, [pos |-> c.pos + 1, buf |-> c.buf + 1])
    ELSE [ev |-> EofEvent, c |-> c, err |-> <<>>]

\* decode_value
DecodeValue(v, c) ==
    IF ValidUtf8(v) THEN Ok(c, v) ELSE Fail(c, InvalidUtf8Err(v, c))

\* `s.parse().map_err(..)`: p is the outcome of from_str on s
Parsed(p, s, c) ==
    IF p = <<>> THEN Fail(c, ValidationErr("from_str", s, c)) ELSE Ok(c, p[1])

\* parse_value
ParseValue(ty, v, c) ==
    Then(DecodeValue(v, c), LAMBDA d : Parsed(Parse(ty, d.val), d.val, c))

\* Some(v) of a successful result
Some(r) == Then(r, LAMBDA x : Ok(x.c, <<x.val>>))

\* variant of ParseOpt: the value is checked but None is returned
ParseOptDropsValue(ty, v, c) ==
    IF v = <<>> THEN Ok(c, <<>>)
    ELSE Then(ParseValue(ty, v, c), LAMBDA x : Ok(c, <<>>))

\* parse_opt
ParseOpt(ty, v, c) ==
    IF v = <<>> THEN Ok(c, <<>>)
    ELSE Then(DecodeValue(v, c), LAMBDA d : Some(Parsed(Parse(ty, d.val), d.val, c)))

RECURSIVE ReadTextLoop(_, _)
\* the loop of read_text_and_parse: the text collected up to the next End
ReadTextLoop(c, text) ==
    LET On(n) ==
            IF n.err # <<>> THEN Fail(n.c, n.err[1])
            ELSE CASE n.ev.type \in {"Text", "CData"} ->
                        IF ValidUtf8(n.ev.text)
                        THEN ReadTextLoop(n.c, text \o Trim(n.ev.text))
                        ELSE Fail(n.c, InvalidUtf8Err(n.ev.text, n.c))
                   [] n.ev.type = "End" -> Ok(n.c, text)
                   [] n.ev.type = "Eof" -> Fail(n.c, XmlErr("UnexpectedEof", n.c))
                   [] OTHER -> Fail(n.c, XmlErr("TextNotFound", n.c))
    IN  On(NextEvent(c))

\* read_text
ReadText(c) == ReadTextLoop(c, <<>>)

\* read_value
ReadValue(ty, c) ==
    Then(ReadTextLoop(c, <<>>), LAMBDA r : Parsed(Parse(ty, r.val), r.val, r.c))

\* variant of ReadOpt: empty text is parsed like any other text
ReadOptEmptyFails(ty, c) == Some(ReadValue(ty, c))

\* read_opt
ReadOpt(ty, c) ==
    Then(ReadTextLoop(c, <<>>),
         LAMBDA r : IF r.val = <<>> THEN Ok(r.c, <<>>)
                    ELSE Some(Parsed(Parse(ty, r.val), r.val, r.c)))

\* `for attr_res in attrs { let attr = attr_res.context(..)?; <body> }`:
\* Body(attr, acc, c) is the loop body; the loop stops at the first error.
ForAttrs(Body(_, _, _), attrs, init, c) ==
    LET f[i \in 0..Len(attrs)] ==
            IF i = 0 THEN Ok(c, init)
            ELSE Then(f[i - 1],
                      LAMBDA r : IF attrs[i].bad THEN Fail(c, XmlErr("attribute", c))
                                 ELSE Body(attrs[i], r.val, c))
    IN  f[Len(attrs)]

----------------------------------------------------------------------------
(* Records of crate::market_xml (Default::default() of each) and the       *)
(* parsers of the nested structures.                                       *)

F32Zero == [num |-> 0, exp10 |-> 0]

DefaultCurrency == [id |-> <<>>, rate |-> <<>>, plus |-> <<>>]
DefaultCategory == [id |-> 0, parent_id |-> 0, name |-> <<>>]
DefaultDeliveryOption == [cost |-> 0, days |-> <<>>, order_before |-> <<>>]
DefaultPrice == [price |-> F32Zero, from |-> FALSE]
DefaultParam ==
    [name |-> <<>>, unit |-> <<>>, value |-> <<>>, id |-> <<>>, value_id |-> <<>>]
DefaultCondition == [type |-> <<>>, reason |-> <<>>]
DefaultShop ==
    [name |-> <<>>, company |-> <<>>, url |-> <<>>, currencies |-> <<>>,
     categories |-> <<>>, delivery_options |-> <<>>]
DefaultYmlCatalog == [date |-> <<>>, shop |-> <<>>]
DefaultOffer ==
    [id |-> <<>>, type |-> <<>>, bid |-> 0, cbid |-> 0, available |-> <<>>,
     name |-> <<>>, vendor |-> <<>>, vendor_code |-> <<>>, url |-> <<>>,
     picture |-> <<>>, price |-> <<>>, old_price |-> <<>>,
     currency_id |-> <<>>, category_id |-> 0, description |-> <<>>,
     sales_notes |-> <<>>, delivery |-> <<>>, pickup |-> <<>>, store |-> <<>>,
     downloadable |-> FALSE, enable_auto_discounts |-> FALSE,
     min_quantity |-> <<>>, manufacturer_warranty |-> FALSE,
     barcodes |-> <<>>, params |-> <<>>, condition |-> <<>>,
     credit_template_id |-> <<>>, country_of_origin |-> <<>>,
     weight |-> F32Zero, dimensions |-> <<>>,
     delivery_options |-> <<>>, pickup_options |-> <<>>]

\* the body of the loop of parse_currency: every value is decoded first
CurrencyAttr(attr, currency, c) ==
    Then(DecodeValue(attr.value, c),
         LAMBDA d : CASE attr.key = "id"   -> Ok(c, [currency EXCEPT !.id = d.val])
                      [] attr.key = "rate" -> Ok(c, [currency EXCEPT !.rate = d.val])
                      [] attr.key = "plus" -> Ok(c, [currency EXCEPT !.plus = d.val])
                      [] OTHER -> Ok(c, currency))

\* parse_currency
ParseCurrency(attrs, c) == ForAttrs(CurrencyAttr, attrs, DefaultCurrency, c)

\* `rec.field = r?`: the record with one field set from a successful result
SetField(rec, field, r) ==
    Then(r, LAMBDA x : Ok(x.c, [rec EXCEPT ![field] = x.val]))

\* `rec.field = Some(r?)`
SetSome(rec, field, r) ==
    Then(r, LAMBDA x : Ok(x.c, [rec EXCEPT ![field] = <<x.val>>]))

\* variant of PushField: the element replaces the list
PushFieldReplaces(rec, field, r) ==
    Then(r, LAMBDA x : Ok(x.c, [rec EXCEPT ![field] = <<x.val>>]))

\* `rec.field.push(r?)`
PushField(rec, field, r) ==
    Then(r, LAMBDA x : Ok(x.c, [rec EXCEPT ![field] = Append(@, x.val)]))

\* the body of the loop of parse_category
CategoryAttr(attr, category, c) ==
    CASE attr.key = "id" ->
            SetField(category, "id", ParseValue("uint", attr.value, c))
      [] attr.key = "parentId" ->
            SetField(category, "parent_id", ParseValue("uint", attr.value, c))
      [] OTHER -> Ok(c, category)

\* parse_category: the attributes, then the name with read_text
ParseCategory(attrs, c) ==
    Then(ForAttrs(CategoryAttr, attrs, DefaultCategory, c),
         LAMBDA a : SetField(a.val, "name", ReadText(c)))

\* the body of the loop of parse_delivery_option
DeliveryOptionAttr(attr, option, c) ==
    CASE attr.key = "cost" ->
            SetField(option, "cost", ParseValue("uint", attr.value, c))
      [] attr.key = "days" ->
            SetField(option, "days", DecodeValue(attr.value, c))
      [] attr.key = "order-before" ->
            SetField(option, "order_before", ParseOpt("uint", attr.value, c))
      [] OTHER -> Ok(c, option)

\* parse_delivery_option
ParseDeliveryOption(attrs, c) ==
    ForAttrs(DeliveryOptionAttr, attrs, DefaultDeliveryOption, c)

RECURSIVE CurrenciesLoop(_, _)
CurrenciesLoop(c, currencies) ==
    LET On(n) ==
            IF n.err # <<>> THEN Fail(n.c, n.err[1])
            ELSE CASE n.ev.type \in {"Start", "Empty"} ->
                        IF n.ev.name = "currency"
                        THEN Then(ParseCurrency(n.ev.attrs, n.c),
                                  LAMBDA r : CurrenciesLoop(r.c, Append(currencies, r.val)))
                        ELSE CurrenciesLoop(n.c, currencies)
                   [] n.ev.type = "End" ->
                        IF n.ev.name = "currencies" THEN Ok(n.c, currencies)
                        ELSE CurrenciesLoop(n.c, currencies)
                   [] n.ev.type = "Eof" -> Fail(n.c, XmlErr("UnexpectedEof", n.c))
                   [] OTHER -> CurrenciesLoop(n.c, currencies)
    IN  On(NextEvent(c))

\* parse_currencies
ParseCurrencies(c) == CurrenciesLoop(c, <<>>)

RECURSIVE CategoriesLoop(_, _)
CategoriesLoop(c, categories) ==
    LET On(n) ==
            IF n.err # <<>> THEN Fail(n.c, n.err[1])
            ELSE CASE n.ev.type \in {"Start", "Empty"} ->
                        IF n.ev.name = "category"
                        THEN Then(ParseCategory(n.ev.attrs, n.c),
                                  LAMBDA r : CategoriesLoop(r.c, Append(categories, r.val)))
                        ELSE CategoriesLoop(n.c, categories)
                   [] n.ev.type = "End" ->
                        IF n.ev.name = "categories" THEN Ok(n.c, categories)
                        ELSE CategoriesLoop(n.c, categories)
                   [] n.ev.type = "Eof" -> Fail(n.c, XmlErr("UnexpectedEof", n.c))
                   [] OTHER -> CategoriesLoop(n.c, categories)
    IN  On(NextEvent(c))

\* parse_categories
ParseCategories(c) == CategoriesLoop(c, <<>>)

RECURSIVE DeliveryOptionsLoop(_, _)
\* the loop of parse_delivery_options: any End event ends the list, and an
\* event that is neither a tag nor Eof is an error
DeliveryOptionsLoop(c, options) ==
    LET On(n) ==
            IF n.err # <<>> THEN Fail(n.c, n.err[1])
            ELSE CASE n.ev.type \in {"Start", "Empty"} ->
                        IF n.ev.name = "option"
                        THEN Then(ParseDeliveryOption(n.ev.attrs, n.c),
                                  LAMBDA r : DeliveryOptionsLoop(r.c, Append(options, r.val)))
                        ELSE DeliveryOptionsLoop(n.c, options)
                   [] n.ev.type = "End" -> Ok(n.c, options)
                   [] n.ev.type = "Eof" -> Fail(n.c, XmlErr("UnexpectedEof", n.c))
                   [] OTHER -> Fail(n.c, XmlErr("TextNotFound", n.c))
    IN  On(NextEvent(c))

\* parse_delivery_options
ParseDeliveryOptions(c) == DeliveryOptionsLoop(c, <<>>)

\* the body of the attribute loop of parse_price
PriceAttr(attr, price, c) ==
    IF attr.key = "from" /\ attr.value = <<"t", "r", "u", "e">>
    THEN Ok(c, [price EXCEPT !.from = TRUE])
    ELSE Ok(c, price)

\* parse_price: the text is read before the attributes are looked at
ParsePrice(attrs, c) ==
    Then(ReadValue("f32", c),
         LAMBDA v : ForAttrs(PriceAttr, attrs, [DefaultPrice EXCEPT !.price = v.val], v.c))

\* the body of the attribute loop of parse_param
ParamAttr(attr, param, c) ==
    Then(DecodeValue(attr.value, c),
         LAMBDA d : CASE attr.key = "name"    -> Ok(c, [param EXCEPT !.name = d.val])
                      [] attr.key = "unit"    -> Ok(c, [param EXCEPT !.unit = d.val])
                      [] attr.key = "id"      -> Ok(c, [param EXCEPT !.id = d.val])
                      [] attr.key = "valueid" -> Ok(c, [param EXCEPT !.value_id = d.val])
                      [] OTHER -> Ok(c, param))

\* parse_param: the text is read before the attributes are looked at
ParseParam(attrs, c) ==
    Then(ReadText(c),
         LAMBDA t : ForAttrs(ParamAttr, attrs, [DefaultParam EXCEPT !.value = t.val], t.c))

\* the body of the attribute loop of parse_condition
ConditionAttr(attr, condition, c) ==
    IF attr.key = "type"
    THEN SetField(condition, "type", DecodeValue(attr.value, c))
    ELSE Ok(c, condition)

RECURSIVE ConditionLoop(_, _)
\* the event loop of parse_condition
ConditionLoop(c, condition) ==
    LET On(n) ==
            IF n.err # <<>> THEN Fail(n.c, n.err[1])
            ELSE CASE n.ev.type = "Start" ->
                        IF n.ev.name = "reason"
                        THEN Then(ReadText(n.c),
                                  LAMBDA t : ConditionLoop(t.c, [condition EXCEPT !.reason = t.val]))
                        ELSE ConditionLoop(n.c, condition)
                   [] n.ev.type = "End" -> Ok(n.c, condition)
                   [] n.ev.type = "Eof" -> Fail(n.c, XmlErr("UnexpectedEof", n.c))
                   [] OTHER -> Fail(n.c, XmlErr("TextNotFound", n.c))
    IN  On(NextEvent(c))

\* parse_condition
ParseCondition(attrs, c) ==
    Then(ForAttrs(ConditionAttr, attrs, DefaultCondition, c),
         LAMBDA a : ConditionLoop(c, a.val))

\* parse_credit_template: the first `id` attribute, decoded; None without one
ParseCreditTemplate(attrs, c) ==
    LET f[i \in 1..(Len(attrs) + 1)] ==
            IF i > Len(attrs) THEN Ok(c, <<>>)
            ELSE IF attrs[i].bad THEN Fail(c, XmlErr("attribute", c))
            ELSE IF attrs[i].key = "id" THEN Some(DecodeValue(attrs[i].value, c))
            ELSE f[i + 1]
    IN  f[1]

----------------------------------------------------------------------------
(* Offers.                                                                 *)

\* variant of Available: the empty literal counts as false
AvailableEmptyIsFalse(value, offer, c) ==
    CASE value \in {<<"f", "a", "l", "s", "e">>, <<"0">>, <<>>} ->
            Ok(c, [offer EXCEPT !.available = <<FALSE>>])
      [] value \in {<<"t", "r", "u", "e">>, <<"1">>} ->
            Ok(c, [offer EXCEPT !.available = <<TRUE>>])
      [] OTHER ->
            Then(DecodeValue(value, c),
                 LAMBDA d : Fail(c, ValidationErr("parse bool", d.val, c)))

\* the `available` arm of parse_offer_attributes, on the raw bytes
Available(value, offer, c) ==
    CASE value \in {<<"f", "a", "l", "s", "e">>, <<"0">>} ->
            Ok(c, [offer EXCEPT !.available = <<FALSE>>])
      [] value \in {<<"t", "r", "u", "e">>, <<"1">>} ->
            Ok(c, [offer EXCEPT !.available = <<TRUE>>])
      [] value = <<>> ->
            Ok(c, [offer EXCEPT !.available = <<>>])
      [] OTHER ->
            Then(DecodeValue(value, c),
                 LAMBDA d : Fail(c, ValidationErr("parse bool", d.val, c)))

\* variant of OfferAttr: a bid or cbid that is no number is passed over
OfferAttrDefers(attr, offer, c) ==
    LET Num(field, r) == IF IsErr(r) THEN Ok(c, offer) ELSE SetField(offer, field, r)
    IN  CASE attr.key = "id" -> SetField(offer, "id", DecodeValue(attr.value, c))
          [] attr.key = "type" -> SetField(offer, "type", DecodeValue(attr.value, c))
          [] attr.key = "bid" -> Num("bid", ParseValue("uint", attr.value, c))
          [] attr.key = "cbid" -> Num("cbid", ParseValue("uint", attr.value, c))
          [] attr.key = "available" -> Available(attr.value, offer, c)
          [] OTHER -> Ok(c, offer)

\* the body of the loop of parse_offer_attributes
OfferAttr(attr, offer, c) ==
    CASE attr.key = "id" -> SetField(offer, "id", DecodeValue(attr.value, c))
      [] attr.key = "type" -> SetField(offer, "type", DecodeValue(attr.value, c))
      [] attr.key = "bid" -> SetField(offer, "bid", ParseValue("uint", attr.value, c))
      [] attr.key = "cbid" -> SetField(offer, "cbid", ParseValue("uint", attr.value, c))
      [] attr.key = "available" -> Available(attr.value, offer, c)
      [] OTHER -> Ok(c, offer)

\* parse_offer_attributes
ParseOfferAttributes(attrs, offer, c) == ForAttrs(OfferAttr, attrs, offer, c)

\* tags of parse_offer_field read with read_text, and the field each sets
TextField ==
    [name |-> "name", vendor |-> "vendor", vendorCode |-> "vendor_code",
     url |-> "url", picture |-> "picture", currencyId |-> "currency_id",
     description |-> "description", sales_notes |-> "sales_notes",
     country_of_origin |-> "country_of_origin", dimensions |-> "dimensions"]

\* tags read with read_value: the field and the target type
ValueField ==
    [categoryId |-> [field |-> "category_id", ty |-> "uint"],
     downloadable |-> [field |-> "downloadable", ty |-> "bool"],
     enable_auto_discounts |-> [field |-> "enable_auto_discounts", ty |-> "bool"],
     manufacturer_warranty |-> [field |-> "manufacturer_warranty", ty |-> "bool"],
     weight |-> [field |-> "weight", ty |-> "f32"]]

\* tags read with read_opt: the field and the target type
OptField ==
    [delivery |-> [field |-> "delivery", ty |-> "bool"],
     pickup |-> [field |-> "pickup", ty |-> "bool"],
     store |-> [field |-> "store", ty |-> "bool"],
     min_quantity |-> [field |-> "min_quantity", ty |-> "uint"]]

\* `.unwrap_or("".to_string())`
UnwrapOrEmpty(r) ==
    Then(r, LAMBDA x : Ok(x.c, IF x.val = <<>> THEN <<>> ELSE x.val[1]))

\* parse_offer_field
ParseOfferField(tag, offer, c) ==
    CASE tag.name \in DOMAIN TextField ->
            SetField(offer, TextField[tag.name], ReadText(c))
      [] tag.name \in DOMAIN ValueField ->
            SetField(offer, ValueField[tag.name].field,
                     ReadValue(ValueField[tag.name].ty, c))
      [] tag.name \in DOMAIN OptField ->
            SetField(offer, OptField[tag.name].field,
                     ReadOpt(OptField[tag.name].ty, c))
      [] tag.name = "price" -> SetSome(offer, "price", ParsePrice(tag.attrs, c))
      [] tag.name = "oldprice" -> SetSome(offer, "old_price", ParsePrice(tag.attrs, c))
      [] tag.name = "barcode" -> PushField(offer, "barcodes", ReadText(c))
      [] tag.name = "param" -> PushField(offer, "params", ParseParam(tag.attrs, c))
      [] tag.name = "condition" ->
            SetSome(offer, "condition", ParseCondition(tag.attrs, c))
      [] tag.name = "credit-template" ->
            SetField(offer, "credit_template_id",
                     UnwrapOrEmpty(ParseCreditTemplate(tag.attrs, c)))
      [] tag.name = "delivery-options" ->
            SetField(offer, "delivery_options", ParseDeliveryOptions(c))
      [] tag.name = "pickup-options" ->
            SetField(offer, "pickup_options", ParseDeliveryOptions(c))
      [] OTHER -> Ok(c, offer)

RECURSIVE ParseOfferFields(_, _)
\* parse_offer_fields: until an End event named `offer`
ParseOfferFields(offer, c) ==
    LET On(n) ==
            IF n.err # <<>> THEN Fail(n.c, n.err[1])
            ELSE CASE n.ev.type \in {"Start", "Empty"} ->
                        Then(ParseOfferField(n.ev, offer, n.c),
                             LAMBDA r : ParseOfferFields(r.val, r.c))
                   [] n.ev.type = "End" ->
                        IF n.ev.name = "offer" THEN Ok(n.c, offer)
                        ELSE ParseOfferFields(offer, n.c)
                   [] n.ev.type = "Eof" -> Fail(n.c, XmlErr("UnexpectedEof", n.c))
                   [] OTHER -> ParseOfferFields(offer, n.c)
    IN  On(NextEvent(c))

\* parse_offer
ParseOffer(attrs, c) ==
    Then(ParseOfferAttributes(attrs, DefaultOffer, c),
         LAMBDA a : ParseOfferFields(a.val, c))

RECURSIVE ParseOffers(_)
\* parse_offers: Some(offer) on an `offer` open tag, None on the `offers`
\* close tag; the buffer is cleared after every event it passes over
ParseOffers(c) ==
    LET On(n) ==
            IF n.err # <<>> THEN Fail(n.c, n.err[1])
            ELSE CASE n.ev.type = "Start" /\ n.ev.name = "offer" ->
                        Some(ParseOffer(n.ev.attrs, n.c))
                   [] n.ev.type = "End" /\ n.ev.name = "offers" -> Ok(n.c, <<>>)
                   [] n.ev.type = "Eof" -> Fail(n.c, XmlErr("UnexpectedEof", n.c))
                   [] OTHER -> ParseOffers([n.c EXCEPT !.buf = 0])
    IN  On(NextEvent(c))

----------------------------------------------------------------------------
(* The shop and the catalog.  These handlers change self.yml_catalog: the  *)
(* value of their result is the pair of the catalog they leave and, where  *)
(* they return one, the next state.  On an error the catalog as changed so *)
(* far stays in `cat`.                                                     *)

\* get_shop: yml_catalog.shop.get_or_insert(Shop::default())
GetShop(cat) == IF cat.shop = <<>> THEN DefaultShop ELSE cat.shop[1]

\* variant of SetShopField: the field is set on a new Shop
SetShopFieldFresh(cat, field, r) ==
    Then(r, LAMBDA x : Ok(x.c, [cat EXCEPT !.shop = <<[DefaultShop EXCEPT ![field] = x.val]>>]))

\* `get_shop(..).field = reader()?`: the reader runs first, and the shop is
\* only created when it succeeds
SetShopField(cat, field, r) ==
    Then(r, LAMBDA x : Ok(x.c, [cat EXCEPT !.shop = <<[GetShop(cat) EXCEPT ![field] = x.val]>>]))

\* parse_shop_field
ParseShopField(tag, cat, c) ==
    CASE tag.name = "name" -> SetShopField(cat, "name", ReadText(c))
      [] tag.name = "company" -> SetShopField(cat, "company", ReadText(c))
      [] tag.name = "url" -> SetShopField(cat, "url", ReadText(c))
      [] tag.name = "currencies" ->
            SetShopField(cat, "currencies", ParseCurrencies(c))
      [] tag.name = "categories" ->
            SetShopField(cat, "categories", ParseCategories(c))
      [] tag.name = "delivery-options" ->
            SetShopField(cat, "delivery_options", ParseDeliveryOptions(c))
      [] OTHER -> Ok(c, cat)

\* a handler's result: the next state and the catalog it leaves
Goto(c, st, cat) == [c |-> c, err |-> <<>>, val |-> st, cat |-> cat]
Fail2(c, e, cat) == [c |-> c, err |-> <<e>>, val |-> <<>>, cat |-> cat]

RECURSIVE ParseShop(_, _)
\* parse_shop
ParseShop(c, cat) ==
    LET Field(r) ==
            IF IsErr(r) THEN Fail2(r.c, r.err[1], cat) ELSE ParseShop(r.c, r.val)
        On(n) ==
            IF n.err # <<>> THEN Fail2(n.c, n.err[1], cat)
            ELSE CASE n.ev.type \in {"Start", "Empty"} ->
                        IF n.ev.name = "offers" THEN Goto(n.c, "Offers", cat)
                        ELSE Field(ParseShopField(n.ev, cat, n.c))
                   [] n.ev.type = "End" ->
                        IF n.ev.name = "shop" THEN Goto(n.c, "YmlCatalog", cat)
                        ELSE ParseShop(n.c, cat)
                   [] n.ev.type = "Eof" -> Fail2(n.c, XmlErr("UnexpectedEof", n.c), cat)
                   [] OTHER -> ParseShop(n.c, cat)
    IN  On(NextEvent(c))

\* variant of YmlCatalogAttr: the date is decoded but not stored
YmlCatalogAttrDropsDate(attr, cat, c) ==
    IF attr.key = "date"
    THEN Then(DecodeValue(attr.value, c), LAMBDA d : Ok(c, cat))
    ELSE Ok(c, cat)

\* the body of the loop of parse_yml_catalog_attrs
YmlCatalogAttr(attr, cat, c) ==
    IF attr.key = "date"
    THEN SetField(cat, "date", DecodeValue(attr.value, c))
    ELSE Ok(c, cat)

\* parse_yml_catalog_attrs, as begin uses it: the date is stored attribute
\* by attribute, so an error leaves the dates stored before it
ParseYmlCatalogAttrs(attrs, cat, c) ==
    LET Attr(r, before) ==
            IF IsErr(r) THEN Fail2(c, r.err[1], before)
            ELSE Goto(c, "YmlCatalog", r.val)
        f[i \in 0..Len(attrs)] ==
            IF i = 0 THEN Goto(c, "YmlCatalog", cat)
            ELSE Then(f[i - 1],
                      LAMBDA p : IF attrs[i].bad
                                 THEN Fail2(c, XmlErr("attribute", c), p.cat)
                                 ELSE Attr(YmlCatalogAttr(attrs[i], p.cat, c), p.cat))
    IN  f[Len(attrs)]

RECURSIVE ParseYmlCatalog(_, _)
\* parse_yml_catalog
ParseYmlCatalog(c, cat) ==
    LET On(n) ==
            IF n.err # <<>> THEN Fail2(n.c, n.err[1], cat)
            ELSE CASE n.ev.type = "Start" /\ n.ev.name = "shop" -> Goto(n.c, "Shop", cat)
                   [] n.ev.type = "End" /\ n.ev.name = "yml_catalog" -> Goto(n.c, "End", cat)
                   [] n.ev.type = "Eof" -> Fail2(n.c, XmlErr("UnexpectedEof", n.c), cat)
                   [] OTHER -> ParseYmlCatalog(n.c, cat)
    IN  On(NextEvent(c))

RECURSIVE Begin(_, _)
\* begin
Begin(c, cat) ==
    LET On(n) ==
            IF n.err # <<>> THEN Fail2(n.c, n.err[1], cat)
            ELSE CASE n.ev.type = "Start" ->
                        IF n.ev.name = "yml_catalog"
                        THEN ParseYmlCatalogAttrs(n.ev.attrs, cat, n.c)
                        ELSE Fail2(n.c, UnexpectedTagErr(n.ev.name, n.c), cat)
                   [] n.ev.type = "Eof" -> Fail2(n.c, XmlErr("UnexpectedEof", n.c), cat)
                   [] OTHER -> Begin(n.c, cat)
    IN  On(NextEvent(c))

----------------------------------------------------------------------------
(* next_item.  Each arm of its match is a step: it either returns from the *)
(* call (ret is the ParsedItem or the error) or assigns self.state and     *)
(* goes round the loop.  `trace` records the assignments to self.state     *)
(* made during the call, each with the tokenizer position it was made at.  *)

Item(k, v) == [kind |-> k, val |-> v]
ErrItem(e) == [kind |-> e.kind, val |-> e]

Return(st, cat, c, item) ==
    [done |-> TRUE, state |-> st, cat |-> cat, c |-> c, ret |-> <<item>>]
Continue(st, cat, c) ==
    [done |-> FALSE, state |-> st, cat |-> cat, c |-> c, ret |-> <<>>]

\* variant of Assign: a handler that fails leaves the parser in Begin
AssignResets(st, r) ==
    IF IsErr(r) THEN Return("Begin", r.cat, r.c, ErrItem(r.err[1]))
    ELSE Continue(r.val, r.cat, r.c)

\* `self.state = handler()?`: r is the handler's result, st the state it ran in
Assign(st, r) ==
    IF IsErr(r) THEN Return(st, r.cat, r.c, ErrItem(r.err[1]))
    ELSE Continue(r.val, r.cat, r.c)

\* variant of StepBegin: the end of input ends the feed, Eof is returned
StepBeginEofEnds(cat, c) ==
    LET AtEof(s) ==
            IF s.done /\ s.ret[1].kind = "Xml" /\ s.ret[1].val.source = "UnexpectedEof"
            THEN Return("End", s.cat, s.c, Item("Eof", <<>>))
            ELSE s
    IN  AtEof(Assign("Begin", Begin(c, cat)))

\* State::Begin
StepBegin(cat, c) == Assign("Begin", Begin(c, cat))

\* variant of ReturnAtEnd: the catalog is not returned, the loop goes on
GoOnAtEnd(s) == s

\* variant of ReturnAtEnd: the catalog is returned and the state is left at
\* YmlCatalog
ReturnAtEndStays(s) ==
    IF ~s.done /\ s.state = "End"
    THEN Return("YmlCatalog", s.cat, s.c, Item("YmlCatalog", s.cat))
    ELSE s

\* the rest of the State::YmlCatalog arm: the catalog is returned when the
\* state has become End
ReturnAtEnd(s) ==
    IF ~s.done /\ s.state = "End"
    THEN Return("End", s.cat, s.c, Item("YmlCatalog", s.cat))
    ELSE s

\* variant of StepYmlCatalog: the catalog is returned as soon as parse_yml_catalog
\* returns, at a shop open tag too
StepYmlCatalogEager(cat, c) ==
    LET Emit(s) == IF s.done THEN s
                   ELSE Return(s.state, s.cat, s.c, Item("YmlCatalog", s.cat))
    IN  Emit(Assign("YmlCatalog", ParseYmlCatalog(c, cat)))

\* State::YmlCatalog
StepYmlCatalog(cat, c) == ReturnAtEnd(Assign("YmlCatalog", ParseYmlCatalog(c, cat)))

\* variant of StepShop: the catalog is returned when the shop scope closes
StepShopEmitting(cat, c) ==
    LET Emit(s) == IF ~s.done /\ s.state = "YmlCatalog"
                   THEN Return(s.state, s.cat, s.c, Item("YmlCatalog", s.cat))
                   ELSE s
    IN  Emit(Assign("Shop", ParseShop(c, cat)))

\* variant of StepShop: a self-closing `offers` tag leaves the state at Shop
StepShopEmptyStays(cat, c) ==
    LET Stay(s) == IF ~s.done /\ s.state = "Offers" /\ input[s.c.pos].type = "Empty"
                   THEN Continue("Shop", s.cat, s.c)
                   ELSE s
    IN  Stay(Assign("Shop", ParseShop(c, cat)))

\* State::Shop
StepShop(cat, c) == Assign("Shop", ParseShop(c, cat))

\* variant of OffersArm: the `offers` close tag leads back to YmlCatalog
OffersArmToCatalog(cat, r) ==
    IF IsErr(r) THEN Return("Offers", cat, r.c, ErrItem(r.err[1]))
    ELSE IF r.val # <<>> THEN Return("Offers", cat, r.c, Item("Offer", r.val[1]))
    ELSE Continue("YmlCatalog", cat, r.c)

\* the match on the result r of parse_offers
OffersArm(cat, r) ==
    IF IsErr(r) THEN Return("Offers", cat, r.c, ErrItem(r.err[1]))
    ELSE IF r.val # <<>> THEN Return("Offers", cat, r.c, Item("Offer", r.val[1]))
    ELSE Continue("Shop", cat, r.c)

\* variant of StepOffers: an Offer is returned and the state goes back to Shop
StepOffersLeaving(cat, c) ==
    LET Leave(s) == IF s.done /\ s.ret[1].kind = "Offer"
                    THEN Return("Shop", s.cat, s.c, s.ret[1])
                    ELSE s
    IN  Leave(OffersArm(cat, ParseOffers(c)))

\* State::Offers
StepOffers(cat, c) == OffersArm(cat, ParseOffers(c))

\* variant of StepEnd: Eof is returned and the parser is reset for a new feed
StepEndResets(cat, c) == Return("Begin", DefaultYmlCatalog, c, Item("Eof", <<>>))

\* State::End
StepEnd(cat, c) == Return("End", cat, c, Item("Eof", <<>>))

Step(st, cat, c) ==
    CASE st = "Begin" -> StepBegin(cat, c)
      [] st = "YmlCatalog" -> StepYmlCatalog(cat, c)
      [] st = "Shop" -> StepShop(cat, c)
      [] st = "Offers" -> StepOffers(cat, c)
      [] st = "End" -> StepEnd(cat, c)

RECURSIVE NextItemLoop(_, _, _, _)
\* the loop of next_item, from state st
NextItemLoop(st, cat, c, trace) ==
    LET Log(s) ==
            IF s.state # st
            THEN Append(trace, [from |-> st, to |-> s.state, pos |-> s.c.pos])
            ELSE trace
        On(s) ==
            IF s.done
            THEN [state |-> s.state, cat |-> s.cat, c |-> s.c, ret |-> s.ret[1],
                  trace |-> Log(s)]
            ELSE NextItemLoop(s.state, s.cat, s.c, Log(s))
    IN  On(Step(st, cat, c))

----------------------------------------------------------------------------
(* The driver: src/src/main.rs, main.  One action, MainLoop, is one pass of *)
(* its loop (a call of next_item and the arm that handles the outcome);     *)
(* MainExit is the code after the loop.  The output directory accepts       *)
(* every file: an I/O error ends the program at once and is not modelled,   *)
(* nor is the progress bar.  A chunk file, and the files of offer ids, hold *)
(* the sequence of messages written to them.                                *)

\* the bytes that occur in offer ids, in byte order
ByteOrder ==
    <<"0", "1", "2", "3", "4", "5", "6", "7", "8", "9",
      "a", "b", "c", "d", "e", "f", "g", "h", "i", "j", "k", "l", "m",
      "n", "o", "p", "q", "r", "s", "t", "u", "v", "w", "x", "y", "z">>

ByteCode(ch) ==
    IF \E i \in 1..Len(ByteOrder) : ByteOrder[i] = ch
    THEN CHOOSE i \in 1..Len(ByteOrder) : ByteOrder[i] = ch
    ELSE 0

RECURSIVE StrLess(_, _)
\* s < t for Strings: byte by byte, a prefix comes first
StrLess(s, t) ==
    IF t = <<>> THEN FALSE
    ELSE IF s = <<>> THEN TRUE
    ELSE IF Head(s) # Head(t) THEN ByteCode(Head(s)) < ByteCode(Head(t))
    ELSE StrLess(Tail(s), Tail(t))

RECURSIVE InsertSorted(_, _)
InsertSorted(x, ids) ==
    IF ids = <<>> THEN <<x>>
    ELSE IF StrLess(Head(ids), x) THEN <<Head(ids)>> \o InsertSorted(x, Tail(ids))
    ELSE <<x>> \o ids

RECURSIVE SortUnstable(_)
\* ids.sort_unstable()
SortUnstable(ids) ==
    IF ids = <<>> THEN <<>> ELSE InsertSorted(Head(ids), SortUnstable(Tail(ids)))

\* format!("{}", e): the Display of a MarketXmlError
Display(e) ==
    CASE e.kind = "Xml" -> <<"Xml error: ", e.source>>
      [] e.kind = "UnexpectedTag" -> <<"Unexpected tag">>
      [] OTHER -> <<e.msg>>

\* the output directory before anything is written
EmptyDir ==
    [offers |-> <<>>, yml_catalog |-> <<>>, offer_ids_available |-> <<>>,
     offer_ids_unavailable |-> <<>>, offer_ids_availability_missing |-> <<>>,
     errors |-> <<>>]

\* DelimitedMessageWriter::open of the next offers-<chunk_ix> file
OpenChunk(out) == [out EXCEPT !.offers = Append(@, <<>>)]

\* write_message: the file receives one message
WriteMessage(out, file, msg) == [out EXCEPT ![file] = Append(@, msg)]

\* Opts::parse() without arguments: --offers-chunk 50000, no --dry-run
DefaultOpts == [offers_chunk_size |-> 50000, dry_run |-> FALSE]

\* the locals of main when the loop is entered; with --offers-chunk 0 main
\* has returned CliError::InvalidOpt before
MainLocals(o) ==
    [pc |-> IF o.offers_chunk_size = 0 THEN "done" ELSE "loop",
     result |-> IF o.offers_chunk_size = 0 THEN <<"InvalidOpt">> ELSE <<>>,
     errors |-> <<>>,
     available_offer_ids |-> <<>>, unavailable_offer_ids |-> <<>>,
     availability_missing_offer_ids |-> <<>>,
     chunk_ix |-> 0, chunk_offers |-> 0,
     offers_writer |-> IF o.dry_run \/ o.offers_chunk_size = 0 THEN <<>> ELSE <<0>>,
     total_offers |-> 0, offers_with_errors |-> 0]

\* the output directory when the loop is entered: offers-0 is open
MainDir(o) ==
    IF o.dry_run \/ o.offers_chunk_size = 0 THEN EmptyDir ELSE OpenChunk(EmptyDir)

\* a pair of the locals and the directory
MainState(m, out) == [main |-> m, out |-> out]

\* `match offer.available`: the id goes on one of the three lists
PushId(s, offer) ==
    CASE offer.available = <<TRUE>> ->
            [s EXCEPT !.main.available_offer_ids = Append(@, offer.id)]
      [] offer.available = <<FALSE>> ->
            [s EXCEPT !.main.unavailable_offer_ids = Append(@, offer.id)]
      [] OTHER ->
            [s EXCEPT !.main.availability_missing_offer_ids = Append(@, offer.id)]

\* `if let Some(ref mut offers_writer) = offers_writer { write; chunk_offers += 1 }`;
\* chunk_offers (u32) is set back to 0 when it reaches offers_chunk_size (u32),
\* so the addition never wraps
WriteOffer(s, offer) ==
    IF s.main.offers_writer = <<>> THEN s
    ELSE [s EXCEPT !.out.offers[s.main.offers_writer[1] + 1] = Append(@, offer),
                   !.main.chunk_offers = @ + 1]

\* variant of NextChunk: the next chunk is opened but the count is kept
NextChunkKeepsCount(s, size) ==
    IF s.main.chunk_offers = size
    THEN [s EXCEPT !.main.chunk_ix = @ + 1,
                   !.main.offers_writer = <<s.main.chunk_ix + 1>>,
                   !.out = OpenChunk(@)]
    ELSE s

\* `if chunk_offers == opts.offers_chunk_size { .. }`
NextChunk(s, size) ==
    IF s.main.chunk_offers = size
    THEN [s EXCEPT !.main.chunk_ix = @ + 1,
                   !.main.chunk_offers = 0,
                   !.main.offers_writer = <<s.main.chunk_ix + 1>>,
                   !.out = OpenChunk(@)]
    ELSE s

\* the arm Ok(ParsedItem::Offer(offer))
OnOffer(s, offer) ==
    [NextChunk(WriteOffer(PushId(s, offer), offer), opts.offers_chunk_size)
        EXCEPT !.main.total_offers = @ + 1]

\* the arm Ok(ParsedItem::YmlCatalog(yml_catalog))
OnYmlCatalog(s, cat) ==
    IF opts.dry_run THEN s
    ELSE [s EXCEPT !.out = WriteMessage(@, "yml_catalog", cat)]

\* variant of OnEof: the loop is not left
OnEofGoesOn(s) == s

\* the arm Ok(ParsedItem::Eof): break
OnEof(s) == [s EXCEPT !.main.pc = "after_loop"]

\* the entry of market_xml::Errors made from an error
ErrorEntry(e) ==
    [line |-> e.line, column |-> e.column, message |-> Display(e),
     value |-> IF ErrValue(e) = <<>> THEN <<>> ELSE ErrValue(e)[1]]

\* variant of RecordError: the record is not counted in the total
RecordErrorNotCounted(s, e) ==
    [s EXCEPT !.main.errors = Append(@, ErrorEntry(e)),
              !.main.offers_with_errors = @ + 1]

\* the rest of the arm Err(e): the error is recorded and the loop goes on
RecordError(s, e) ==
    [s EXCEPT !.main.errors = Append(@, ErrorEntry(e)),
              !.main.total_offers = @ + 1,
              !.main.offers_with_errors = @ + 1]

\* variant of OnErr: an Xml error is recorded like the others
OnErrKeepsGoing(s, e) == RecordError(s, e)

\* the arm Err(e): an Xml error ends main with CliError::ParseXml
OnErr(s, e) ==
    IF e.kind = "Xml"
    THEN [s EXCEPT !.main.pc = "done", !.main.result = <<"ParseXml">>]
    ELSE RecordError(s, e)

\* `match parser.next_item()`
LoopBody(s, ret) ==
    CASE ret.kind = "Offer" -> OnOffer(s, ret.val)
      [] ret.kind = "YmlCatalog" -> OnYmlCatalog(s, ret.val)
      [] ret.kind = "Eof" -> OnEof(s)
      [] OTHER -> OnErr(s, ret.val)

\* the code after the loop: the sorted id lists and the errors are written
AfterLoop(s) ==
    LET Ids(out) ==
            WriteMessage(
                WriteMessage(
                    WriteMessage(out, "offer_ids_available",
                                 SortUnstable(s.main.available_offer_ids)),
                    "offer_ids_unavailable",
                    SortUnstable(s.main.unavailable_offer_ids)),
                "offer_ids_availability_missing",
                SortUnstable(s.main.availability_missing_offer_ids))
        Errors(out) ==
            IF s.main.errors # <<>> THEN WriteMessage(out, "errors", s.main.errors)
            ELSE out
        Sorted(m) ==
            [m EXCEPT !.available_offer_ids = SortUnstable(@),
                      !.unavailable_offer_ids = SortUnstable(@),
                      !.availability_missing_offer_ids = SortUnstable(@)]
        Done(m) == [m EXCEPT !.pc = "done", !.result = <<"Ok">>]
    IN  IF opts.dry_run THEN [main |-> Done(s.main), out |-> s.out]
        ELSE [main |-> Done(Sorted(s.main)), out |-> Errors(Ids(s.out))]

----------------------------------------------------------------------------
(* Feeds.  Each specification starts from one family of event streams.     *)

TrueS == <<"t", "r", "u", "e">>
FalseS == <<"f", "a", "l", "s", "e">>
DateS == <<"2", "0", "1", "9", "-", "1", "1">>
BadS == <<"2", BadByte>>

\* every sequence of at most n elements of V
SeqsUpTo(V, n) == UNION {[1..k -> V] : k \in 0..n}

RECURSIVE Flatten(_)
Flatten(ss) == IF ss = <<>> THEN <<>> ELSE Head(ss) \o Flatten(Tail(ss))

\* <n a..>text</n>
Elem(n, a, x) == <<St(n, a), Tx(x), En(n)>>

Prologs == {<<>>, <<Decl>>, <<Decl, Cm, Em("note", <<>>), Tx(<<"x">>)>>}

Roots ==
    {St("yml_catalog", <<A("date", DateS)>>),
     St("yml_catalog", <<>>),
     St("yml_catalog", <<A("version", <<"1">>), A("date", DateS)>>),
     St("yml_catalog", <<A("date", BadS)>>),
     St("yml_catalog", <<BadAttr>>),
     St("catalog", <<A("date", DateS)>>),
     St("shop", <<>>)}

ShopNameOnly == <<St("shop", <<>>)>> \o Elem("name", <<>>, <<"S">>) \o <<En("shop")>>

\* the prologue and the root tag vary
DocsBegin ==
    {p \o <<r>> \o b \o <<En(r.name)>> :
        p \in Prologs, r \in Roots, b \in {<<>>, ShopNameOnly}}

GoodOffer(id) ==
    <<St("offer", <<A("id", id), A("bid", <<"8", "0">>)>>)>>
    \o Elem("name", <<>>, <<"n">> \o id)
    \o Elem("categoryId", <<>>, <<"1", "0">> \o id)
    \o <<En("offer")>>

\* a non-numeric categoryId, with fields after it
BadCategoryOffer ==
    <<St("offer", <<A("id", <<"b">>)>>)>>
    \o Elem("name", <<>>, <<"b">>)
    \o Elem("categoryId", <<>>, <<"x", "1">>)
    \o Elem("vendor", <<>>, <<"v">>)
    \o <<En("offer")>>

\* a non-numeric categoryId after a self-closing <name/>
EmptyNameBadCategoryOffer ==
    <<St("offer", <<A("id", <<"c">>)>>), Em("name", <<>>)>>
    \o Elem("categoryId", <<>>, <<"x", "2">>)
    \o <<En("offer")>>

\* a self-closing <vendor/> as the last child
EmptyLastOffer ==
    <<St("offer", <<A("id", <<"d">>)>>)>>
    \o Elem("categoryId", <<>>, <<"7">>)
    \o <<Em("vendor", <<>>), En("offer")>>

\* a bid that is no number
BadBidOffer ==
    <<St("offer", <<A("id", <<"e">>), A("bid", <<"x">>)>>)>>
    \o Elem("categoryId", <<>>, <<"x", "3">>)
    \o <<En("offer")>>

\* tags the parser does not know, a comment, an unknown self-closing tag
UnknownTagsOffer ==
    <<St("offer", <<A("id", <<"f">>)>>), Cm, St("age", <<>>), Tx(<<"1", "8">>),
      En("age"), Em("adult", <<>>)>>
    \o Elem("categoryId", <<>>, <<" ", "4", "\n">>)
    \o <<En("offer")>>

OfferVariants ==
    {GoodOffer(<<"1">>), GoodOffer(<<"2">>), BadCategoryOffer,
     EmptyNameBadCategoryOffer, EmptyLastOffer, BadBidOffer, UnknownTagsOffer,
     <<Em("offer", <<A("id", <<"g">>)>>)>>}

OffersBlock(os) == <<St("offers", <<>>)>> \o Flatten(os) \o <<En("offers")>>

Catalog(body) ==
    <<St("yml_catalog", <<A("date", DateS)>>)>> \o body \o <<En("yml_catalog")>>

\* one shop, its offers vary
DocsOffers ==
    {Catalog(<<St("shop", <<>>)>> \o Elem("name", <<>>, <<"S">>)
             \o OffersBlock(os) \o <<En("shop")>>) :
        os \in SeqsUpTo(OfferVariants, MaxOffers)}

ShopVariants ==
    {ShopNameOnly,
     <<St("shop", <<>>), En("shop")>>,
     <<St("shop", <<>>)>> \o Elem("company", <<>>, <<"C">>)
        \o OffersBlock(<<GoodOffer(<<"1">>)>>) \o <<En("shop")>>,
     <<St("shop", <<>>)>> \o Elem("name", <<>>, <<"T">>)
        \o Elem("url", <<>>, <<"u">>) \o <<En("shop")>>,
     <<St("shop", <<>>), Em("offers", <<>>), En("shop")>>}

\* the shop scope opens and closes several times
DocsShops == {Catalog(Flatten(ss)) : ss \in SeqsUpTo(ShopVariants, MaxShops)}

Docs == DocsBegin \cup DocsOffers \cup DocsShops

\* the literals of the `available` attribute
AvailLiterals ==
    {FalseS, <<"0">>, <<>>, TrueS, <<"1">>, <<"y", "e", "s">>,
     <<"T", "R", "U", "E">>, <<"1", " ">>, BadS}

AvailAttrs == {<<>>} \cup {<<A("available", v)>> : v \in AvailLiterals}

\* the order-before attribute of an option: absent, numbers, empty, no number
OrderBefores ==
    {<<>>, <<A("order-before", <<"1", "8">>)>>, <<A("order-before", <<"0", "7">>)>>,
     <<A("order-before", <<>>)>>, <<A("order-before", <<"x">>)>>}

OptionAttrs(ob) == <<A("cost", <<"3", "0", "0">>), A("days", <<"1">>)>> \o ob

\* <option ../> with each order-before, and one <option ..></option> pair
OptionVariants ==
    {<<Em("option", OptionAttrs(ob))>> : ob \in OrderBefores}
    \cup {<<St("option", OptionAttrs(<<A("order-before", <<"5">>)>>)), En("option")>>}

\* <n>children</n>
List(n, children) == <<St(n, <<>>)>> \o Flatten(children) \o <<En(n)>>

OfferWith(attrs, children) ==
    <<St("offer", <<A("id", <<"a">>)>> \o attrs)>> \o children
    \o Elem("categoryId", <<>>, <<"7">>) \o <<En("offer")>>

ShopWith(children) ==
    <<St("shop", <<>>)>> \o Elem("name", <<>>, <<"S">>) \o children \o <<En("shop")>>

\* one offer: its `available` attribute varies, or its option lists do; and
\* shops whose delivery-options vary
DocsAttrs ==
    {Catalog(ShopWith(OffersBlock(<<OfferWith(av, <<>>)>>))) : av \in AvailAttrs}
    \cup {Catalog(ShopWith(OffersBlock(<<OfferWith(<<>>, List(n, os))>>))) :
            n \in {"delivery-options", "pickup-options"},
            os \in SeqsUpTo(OptionVariants, MaxChildren)}
    \cup {Catalog(ShopWith(List("delivery-options", os))) :
            os \in SeqsUpTo(OptionVariants, MaxChildren)}

CurrencyVariants ==
    {<<Em("currency", <<A("id", <<"R", "U", "R">>), A("rate", <<"1">>)>>)>>,
     <<Em("currency", <<A("id", <<"U", "S", "D">>), A("rate", <<"6", "0">>),
                        A("plus", <<"3">>)>>)>>,
     <<St("currency", <<A("rate", <<"C", "B">>), A("id", <<"E", "U", "R">>)>>),
       En("currency")>>}

CategoryVariants ==
    {Elem("category", <<A("id", <<"1">>)>>, <<"A">>),
     Elem("category", <<A("id", <<"1", "0">>), A("parentId", <<"1">>)>>, <<" ", "B">>),
     <<Em("category", <<A("id", <<"3">>)>>)>>}

ShopOptionVariants ==
    {<<Em("option", <<A("cost", <<"2", "0", "0">>), A("days", <<"1">>)>>)>>,
     <<Em("option", <<A("days", <<"2">>), A("order-before", <<"1", "8">>)>>)>>,
     <<St("option", <<A("cost", <<"9">>), A("days", <<"3">>)>>), En("option")>>}

\* one shop with one nested list, whose children vary
DocsLists ==
    {Catalog(ShopWith(List("currencies", cs))) :
        cs \in SeqsUpTo(CurrencyVariants, MaxChildren)}
    \cup {Catalog(ShopWith(List("categories", cs))) :
            cs \in SeqsUpTo(CategoryVariants, MaxChildren)}
    \cup {Catalog(ShopWith(List("delivery-options", cs))) :
            cs \in SeqsUpTo(ShopOptionVariants, MaxChildren)}

\* an offer with an `available` attribute
AvailOffer(id, v) ==
    <<St("offer", <<A("id", id), A("available", v)>>)>>
    \o Elem("categoryId", <<>>, <<"5">>) \o <<En("offer")>>

MainOfferVariants ==
    {GoodOffer(<<"2">>), AvailOffer(<<"1">>, TrueS), AvailOffer(<<"0">>, <<"0">>),
     BadCategoryOffer, EmptyNameBadCategoryOffer}

\* a catalog inside a foreign root element
Wrapped(doc) == <<St("feed", <<>>)>> \o doc \o <<En("feed")>>

\* a feed cut short after an offer with an undecodable `available` and one
\* with a non-numeric categoryId, inside a foreign root
CutShort ==
    <<St("feed", <<>>), St("yml_catalog", <<A("date", DateS)>>), St("shop", <<>>),
      St("offers", <<>>)>>
    \o AvailOffer(<<"u">>, BadS) \o BadCategoryOffer

\* the feeds given to the driver
DocsMain ==
    {Catalog(ShopWith(OffersBlock(os))) :
        os \in SeqsUpTo(MainOfferVariants, MaxMainOffers)}
    \cup {Wrapped(Catalog(ShopWith(OffersBlock(<<GoodOffer(<<"1">>)>>)))),
          Wrapped(Catalog(<<>>)), CutShort, ShopNameOnly, <<>>}

\* children of an offer that parse_offer_field does not know: with text, self-
\* closing, and with children of their own
UnknownOfferTags ==
    {Elem("age", <<>>, <<"1", "8">>),
     <<Em("adult", <<>>)>>,
     <<St("supplier", <<>>)>> \o Elem("name", <<>>, <<"X">>) \o <<En("supplier")>>,
     <<St("supplier", <<>>)>> \o Elem("categoryId", <<>>, <<"x">>) \o <<En("supplier")>>,
     <<St("extra", <<>>)>> \o Elem("b", <<>>, <<"1">>) \o <<En("extra")>>}

\* children of a shop that parse_shop_field does not know
UnknownShopTags ==
    {Elem("platform", <<>>, <<"P">>),
     <<Em("email", <<>>)>>,
     <<St("agency", <<>>)>> \o Elem("name", <<>>, <<"A">>) \o <<En("agency")>>,
     <<St("meta", <<>>)>> \o Elem("v", <<>>, <<"1">>) \o <<En("meta")>>}

\* one shop and one offer, each with children the parser does not know
DocsTags ==
    {Catalog(ShopWith(Flatten(ss) \o OffersBlock(<<OfferWith(<<>>, Flatten(os))>>))) :
        ss \in SeqsUpTo(UnknownShopTags, MaxChildren),
        os \in SeqsUpTo(UnknownOfferTags, MaxChildren)}

\* content of a nested list that is no matching child: a comment, text, a
\* self-closing tag, and elements with and without text
ListNoise ==
    {<<Cm>>, <<Tx(<<"x">>)>>, <<Em("note", <<>>)>>, Elem("note", <<>>, <<"n">>),
     <<St("note", <<>>), En("note")>>}

\* a matching child of each nested list, written the way its parser reads
\* one child from
ListChildOf(n) ==
    CASE n = "currencies" -> <<Em("currency", <<A("id", <<"R", "U", "R">>)>>)>>
      [] n = "categories" -> Elem("category", <<A("id", <<"1">>)>>, <<"A">>)
      [] OTHER -> <<Em("option", <<A("cost", <<"2">>), A("days", <<"1">>)>>)>>

\* the contents of a list n: matching children and other content, mixed
ListContents(n) == SeqsUpTo(ListNoise \cup {ListChildOf(n)}, MaxChildren)

\* a nested list of the shop or of an offer with other content between its
\* children
DocsNoise ==
    UNION {{Catalog(ShopWith(List(n, cs))) : cs \in ListContents(n)} :
              n \in {"currencies", "categories", "delivery-options"}}
    \cup UNION {{Catalog(ShopWith(OffersBlock(<<OfferWith(<<>>, List(n, cs))>>))) :
                    cs \in ListContents(n)} :
                    n \in {"delivery-options", "pickup-options"}}

\* the texts of a scalar field: none, numbers, booleans, and no value
ScalarTexts ==
    {<<>>, <<"7">>, <<"1", ".", "5">>, TrueS, FalseS, <<"T", "R", "U", "E">>, <<"x">>}

\* the tags of an offer read with read_value (price through parse_price)
\* and with read_opt
RequiredTags == DOMAIN ValueField \cup {"price"}
OptionalTags == {"delivery", "pickup", "store"}

\* <n>text</n>; the tokenizer delivers no Text event for an empty element
ScalarElem(n, x) == IF x = <<>> THEN <<St(n, <<>>), En(n)>> ELSE Elem(n, <<>>, x)

\* an offer with one scalar field
ScalarOffer(n, x) ==
    <<St("offer", <<A("id", <<"a">>)>>)>> \o ScalarElem(n, x) \o <<En("offer")>>

\* one offer whose scalar field and its text vary; and three offers: an
\* empty weight, an empty store, a delivery that is no boolean
DocsScalars ==
    {Catalog(ShopWith(OffersBlock(<<ScalarOffer(n, x)>>))) :
        n \in RequiredTags \cup OptionalTags, x \in ScalarTexts}
    \cup {Catalog(ShopWith(OffersBlock(
                <<ScalarOffer("weight", <<>>), ScalarOffer("store", <<>>),
                  ScalarOffer("delivery", <<"x">>)>>)))}

\* literals of a numeric attribute: numbers, no number, empty, negative,
\* not valid UTF-8
NumLiterals == {<<"8", "0">>, <<"+", "5">>, <<"x">>, <<>>, <<"-", "1">>, BadS}

MaybeS == <<"m", "a", "y", "b", "e">>

\* the attributes of an offer after its id: a bid or a cbid followed by an
\* `available` that is no boolean, or a bid and a cbid
NumOfferAttrs ==
    {<<A(key, v), A("available", MaybeS)>> : key \in {"bid", "cbid"}, v \in NumLiterals}
    \cup {<<A("bid", v), A("cbid", w)>> : v \in NumLiterals, w \in NumLiterals}

\* an offer with these attributes, a name and a category
NumOffer(attrs) ==
    <<St("offer", <<A("id", <<"p">>)>> \o attrs)>>
    \o Elem("name", <<>>, <<"p">>) \o Elem("categoryId", <<>>, <<"7">>)
    \o <<En("offer")>>

\* a list of two options: the cost of the first varies and its order-before
\* is no number
CostOptions(n, v) ==
    List(n, <<<<Em("option", <<A("cost", v), A("days", <<"1">>),
                               A("order-before", <<"x">>)>>)>>,
              <<Em("option", <<A("cost", <<"2">>), A("days", <<"2">>)>>)>>>>)

\* offers whose bid and cbid vary, offers and shops whose option cost
\* varies; a well-formed offer follows
DocsNumAttrs ==
    {Catalog(ShopWith(OffersBlock(<<NumOffer(a), GoodOffer(<<"1">>)>>))) :
        a \in NumOfferAttrs}
    \cup {Catalog(ShopWith(OffersBlock(<<OfferWith(<<>>, CostOptions(n, v)),
                                         GoodOffer(<<"1">>)>>))) :
            n \in {"delivery-options", "pickup-options"}, v \in NumLiterals}
    \cup {Catalog(ShopWith(CostOptions("delivery-options", v)
                           \o OffersBlock(<<GoodOffer(<<"1">>)>>))) :
            v \in NumLiterals}

\* a complete feed: a shop with a name and each nested list, an offer with
\* a scalar, an option list and a condition, and a second offer
FullDoc ==
    <<Decl>>
    \o Catalog(ShopWith(
            List("currencies", <<<<Em("currency", <<A("id", <<"R", "U", "R">>)>>)>>>>)
            \o List("categories", <<Elem("category", <<A("id", <<"1">>)>>, <<"A">>)>>)
            \o OffersBlock(
                  <<OfferWith(<<>>,
                              List("delivery-options",
                                   <<<<Em("option", <<A("cost", <<"2">>)>>)>>>>)
                              \o <<St("condition", <<>>)>>
                              \o Elem("reason", <<>>, <<"r">>)
                              \o <<En("condition")>>),
                    GoodOffer(<<"1">>)>>)))

\* the feed cut after each of its events, and the whole feed
DocsCut == {SubSeq(FullDoc, 1, n) : n \in 0..Len(FullDoc)}

\* nested lists of a shop, two or three of each tag with different children
RepeatShopLists ==
    {List("currencies", <<<<Em("currency", <<A("id", <<"R", "U", "R">>), A("rate", <<"1">>)>>)>>>>),
     List("currencies", <<<<Em("currency", <<A("id", <<"U", "S", "D">>), A("rate", <<"6", "0">>)>>)>>>>),
     List("currencies", <<>>),
     List("categories", <<Elem("category", <<A("id", <<"1">>)>>, <<"A">>)>>),
     List("categories", <<Elem("category", <<A("id", <<"2">>)>>, <<"B">>)>>),
     List("delivery-options", <<<<Em("option", <<A("cost", <<"2", "0", "0">>), A("days", <<"1">>)>>)>>>>),
     List("delivery-options", <<<<Em("option", <<A("days", <<"2">>)>>)>>>>)}

\* option lists, barcodes and params of an offer
RepeatOfferFields ==
    {List("delivery-options", <<<<Em("option", <<A("cost", <<"3", "0", "0">>), A("days", <<"1">>)>>)>>>>),
     List("delivery-options", <<<<Em("option", <<A("days", <<"4">>)>>)>>>>),
     List("pickup-options", <<<<Em("option", <<A("cost", <<"5">>)>>)>>>>),
     List("pickup-options", <<>>),
     Elem("barcode", <<>>, <<"1">>),
     Elem("barcode", <<>>, <<"2">>),
     Elem("param", <<A("name", <<"w">>)>>, <<"9">>),
     Elem("param", <<A("name", <<"h">>), A("unit", <<"m">>)>>, <<"3">>)}

\* a shop with two currencies lists; an offer with two barcodes and two
\* delivery-options lists
TwoCurrencyLists ==
    List("currencies", <<<<Em("currency", <<A("id", <<"R", "U", "R">>), A("rate", <<"1">>)>>)>>>>)
    \o List("currencies", <<<<Em("currency", <<A("id", <<"U", "S", "D">>), A("rate", <<"6", "0">>)>>)>>>>)
TwoBarcodesOffer ==
    OfferWith(<<>>,
        Elem("barcode", <<>>, <<"1">>)
        \o List("delivery-options", <<<<Em("option", <<A("cost", <<"3", "0", "0">>), A("days", <<"1">>)>>)>>>>)
        \o Elem("barcode", <<>>, <<"2">>)
        \o List("delivery-options", <<<<Em("option", <<A("days", <<"4">>)>>)>>>>))

\* the lists of the shop vary and repeat; the fields of the offer do
DocsRepeat ==
    {Catalog(ShopWith(Flatten(ls) \o OffersBlock(<<TwoBarcodesOffer>>))) :
        ls \in SeqsUpTo(RepeatShopLists, MaxFields)}
    \cup {Catalog(ShopWith(TwoCurrencyLists
                           \o OffersBlock(<<OfferWith(<<>>, Flatten(fs))>>))) :
            fs \in SeqsUpTo(RepeatOfferFields, MaxFields)}

\* shop elements: with fields, with a field that fails (a cost that is no
\* number), with an empty name, empty, with an unknown tag only, and with a
\* field after its offers
ScopeVariants ==
    {<<St("shop", <<>>)>> \o Elem("name", <<>>, <<"S">>)
        \o List("currencies", <<<<Em("currency", <<A("id", <<"R", "U", "R">>), A("rate", <<"1">>)>>)>>>>)
        \o <<En("shop")>>,
     <<St("shop", <<>>)>> \o Elem("company", <<>>, <<"C">>) \o Elem("name", <<>>, <<"T">>)
        \o <<En("shop")>>,
     <<St("shop", <<>>)>>
        \o List("delivery-options", <<<<Em("option", <<A("cost", <<"x">>)>>)>>>>)
        \o <<En("shop")>>,
     <<St("shop", <<>>), St("name", <<>>), En("name"), En("shop")>>,
     <<St("shop", <<>>), En("shop")>>,
     <<St("shop", <<>>)>> \o Elem("age", <<>>, <<"1">>) \o <<En("shop")>>,
     <<St("shop", <<>>)>> \o Elem("url", <<>>, <<"u">>)
        \o List("categories", <<Elem("category", <<A("id", <<"1">>)>>, <<"A">>)>>)
        \o List("delivery-options", <<<<Em("option", <<A("cost", <<"2", "0", "0">>), A("days", <<"1">>)>>)>>>>)
        \o <<En("shop")>>,
     <<St("shop", <<>>)>> \o OffersBlock(<<GoodOffer(<<"1">>)>>)
        \o Elem("company", <<>>, <<"D">>) \o <<En("shop")>>}

\* the shop scope opens and closes several times, with different fields
DocsScopes == {Catalog(Flatten(ss)) : ss \in SeqsUpTo(ScopeVariants, MaxShops)}

----------------------------------------------------------------------------
(* The specification.                                                      *)

\* MarketXmlParser::new on a feed of docs, for main started with options o
InitOf(docs, o) ==
    /\ input \in docs
    /\ pos = 0
    /\ buf = 0
    /\ state = "Begin"
    /\ yml_catalog = DefaultYmlCatalog
    /\ calls = <<>>
    /\ opts \in o
    /\ main = MainLocals(opts)
    /\ output_dir = MainDir(opts)

\* the parser alone: its caller is any sequence of next_item calls
InitWith(docs) == InitOf(docs, {DefaultOpts})

\* MarketXmlParser::new on a feed
Init == InitWith(Docs)

\* the parser after a call of next_item with outcome r, and the call's record
Called(r) ==
    /\ state' = r.state
    /\ yml_catalog' = r.cat
    /\ pos' = r.c.pos
    /\ buf' = r.c.buf
    /\ calls' = Append(calls, [before |-> state, after |-> r.state,
                               from |-> pos, to |-> r.c.pos, cat |-> r.cat,
                               ret |-> r.ret, trace |-> r.trace])

\* one call of next_item
NextItem ==
    /\ Len(calls) < MaxCalls
    /\ Called(NextItemLoop(state, yml_catalog, [pos |-> pos, buf |-> buf], <<>>))
    /\ UNCHANGED <<input, opts, main, output_dir>>

Next == NextItem

Spec == Init /\ [][Next]_vars

\* the parser on a feed whose offer attributes and option lists vary
InitAttrs == InitWith(DocsAttrs)
SpecAttrs == InitAttrs /\ [][Next]_vars

\* the parser on a feed whose shop lists vary
InitLists == InitWith(DocsLists)
SpecLists == InitLists /\ [][Next]_vars

\* the parser on a feed with a nested list, in the shop or in an offer
InitNested == InitWith(DocsLists \cup DocsAttrs)
SpecNested == InitNested /\ [][Next]_vars

\* the parser on a feed with tags it does not know
InitTags == InitWith(DocsTags)
SpecTags == InitTags /\ [][Next]_vars

\* the parser on a feed whose nested lists hold other content
InitNoise == InitWith(DocsNoise)
SpecNoise == InitNoise /\ [][Next]_vars

\* the parser on a feed whose offers have one scalar field each
InitScalars == InitWith(DocsScalars)
SpecScalars == InitScalars /\ [][Next]_vars

\* the parser on a feed whose numeric attributes vary
InitNumAttrs == InitWith(DocsNumAttrs)
SpecNumAttrs == InitNumAttrs /\ [][Next]_vars

\* the parser on a feed that ends early
InitCut == InitWith(DocsCut)
SpecCut == InitCut /\ [][Next]_vars

\* feeds in which a call fails in each of the states Begin, YmlCatalog, Shop
\* and Offers, and is followed by further calls
DocsErrors == Docs \cup DocsNumAttrs \cup DocsCut
InitErrors == InitWith(DocsErrors)
SpecErrors == InitErrors /\ [][Next]_vars

\* the parser on feeds with repeated list tags
InitRepeat == InitWith(DocsRepeat)
SpecRepeat == InitRepeat /\ [][Next]_vars

\* the parser on feeds with several shop elements
InitScopes == InitWith(DocsScopes)
SpecScopes == InitScopes /\ [][Next]_vars

\* main with the outcome s of the loop body
Looped(s) == main' = s.main /\ output_dir' = s.out

\* one pass of the loop of main: r is the outcome of parser.next_item()
MainPass(r) ==
    Called(r) /\ Looped(LoopBody(MainState(main, output_dir), r.ret))

MainLoop ==
    /\ main.pc = "loop"
    /\ MainPass(NextItemLoop(state, yml_catalog, [pos |-> pos, buf |-> buf], <<>>))
    /\ UNCHANGED <<input, opts>>

\* the code of main after the loop
MainExit ==
    /\ main.pc = "after_loop"
    /\ Looped(AfterLoop(MainState(main, output_dir)))
    /\ UNCHANGED <<input, pos, buf, state, yml_catalog, calls, opts>>

NextMain == MainLoop \/ MainExit

\* every --offers-chunk up to MaxChunk, with and without --dry-run
MainOpts == [offers_chunk_size : 0..MaxChunk, dry_run : BOOLEAN]

InitMain == InitOf(DocsMain, MainOpts)
SpecMain == InitMain /\ [][NextMain]_vars

\* main as a running program: a pass of the loop that can be made is made,
\* and so is the code after the loop.  This is WF_vars(NextMain) written
\* out: a step of NextMain always changes vars (MainLoop lengthens calls,
\* MainExit moves main.pc) and one can be taken exactly when main.pc is not
\* "done", next_item returning on every call.
MainFair == []<>(main.pc = "done") \/ []<><<NextMain>>_vars
SpecMainFair == InitMain /\ [][NextMain]_vars /\ MainFair

----------------------------------------------------------------------------
(* The feed as a tree, and the history of calls.                           *)

Last(s) == s[Len(s)]
Max(S) == CHOOSE x \in S : \A y \in S : y <= x
Min(S) == CHOOSE x \in S : \A y \in S : x <= y

ErrorKinds == {"Xml", "UnexpectedTag", "InvalidUtf8", "Validation"}

IsOpen(i, n) == input[i].type = "Start" /\ input[i].name = n
IsClose(i, n) == input[i].type = "End" /\ input[i].name = n

RECURSIVE CloseFrom(_, _)
\* the End event that closes the element open at nesting depth d below j;
\* 0 when the feed ends first
CloseFrom(j, d) ==
    IF j > Len(input) THEN 0
    ELSE IF input[j].type = "Start" THEN CloseFrom(j + 1, d + 1)
    ELSE IF input[j].type = "End"
         THEN (IF d = 0 THEN j ELSE CloseFrom(j + 1, d - 1))
    ELSE CloseFrom(j + 1, d)

\* the close tag of the element whose open tag is event i
MatchClose(i) == CloseFrom(i + 1, 0)

\* the first open tag after position p; 0 when there is none
FirstOpenAfter(p) ==
    LET S == {i \in (p + 1)..Len(input) : input[i].type = "Start"}
    IN  IF S = {} THEN 0 ELSE Min(S)

RootOpen == FirstOpenAfter(0)

HasAttr(tag, key) == \E n \in 1..Len(tag.attrs) : tag.attrs[n].key = key

\* the value of the last attribute `key` of a tag
AttrValue(tag, key) ==
    tag.attrs[Max({n \in 1..Len(tag.attrs) : tag.attrs[n].key = key})].value

\* the call that delivered event i (i <= pos)
CallOf(i) == CHOOSE k \in 1..Len(calls) : calls[k].from < i /\ i <= calls[k].to

\* the state the parser was in when call k received event i
StateAt(k, i) ==
    LET S == {n \in 1..Len(calls[k].trace) : calls[k].trace[n].pos < i}
    IN  IF S = {} THEN calls[k].before ELSE calls[k].trace[Max(S)].to

\* the position at which the last handler of call k started to read
Started(k) ==
    IF calls[k].trace = <<>> THEN calls[k].from ELSE Last(calls[k].trace).pos

\* the open tag matched by parse_offers in a call k that returned an Offer
OfferOpen(k) ==
    Min({i \in (Started(k) + 1)..Len(input) : IsOpen(i, "offer")})

\* the catalog before call k
PrevCat(k) == IF k = 1 THEN DefaultYmlCatalog ELSE calls[k - 1].cat

\* the positions at which self.state went from Shop to YmlCatalog
ShopCloses ==
    {p \in 1..pos :
        \E n \in 1..Len(calls[CallOf(p)].trace) :
            calls[CallOf(p)].trace[n] = [from |-> "Shop", to |-> "YmlCatalog", pos |-> p]}

----------------------------------------------------------------------------
(* C1                                                                      *)

\* C1: once next_item has returned Eof, every later call returns Eof again,
\* asks the tokenizer for no event and leaves the state, the buffer and the
\* catalog as they were.
C1_EofIsTerminal ==
    [][(calls # <<>> /\ Last(calls).ret.kind = "Eof")
        => /\ Last(calls').ret.kind = "Eof"
           /\ pos' = pos
           /\ buf' = buf
           /\ state' = state
           /\ yml_catalog' = yml_catalog]_vars

\* Eof has been returned twice in a row
C1_EofTwice ==
    \E k \in 1..(Len(calls) - 1) :
        calls[k].ret.kind = "Eof" /\ calls[k + 1].ret.kind = "Eof"

----------------------------------------------------------------------------
(* C2                                                                      *)

\* the offer open tags delivered while the state was Offers
ObservedOffers ==
    {i \in 1..pos : IsOpen(i, "offer") /\ StateAt(CallOf(i), i) = "Offers"}

\* the calls that returned kind `kinds` having stopped inside the element
\* whose open tag is event i
StoppedIn(i, kinds) ==
    {k \in 1..Len(calls) :
        calls[k].ret.kind \in kinds /\ i <= calls[k].to /\ calls[k].to <= MatchClose(i)}

\* C2: for every offer element whose open tag is observed in Offers (and in
\* which no read failed), once its close tag is consumed exactly one call
\* has returned an Offer for it, and that call stopped at the element's own
\* close tag.
C2_OneOfferAtItsOwnClose ==
    \A i \in ObservedOffers :
        (MatchClose(i) <= pos /\ StoppedIn(i, ErrorKinds) = {})
        => \E k \in 1..Len(calls) :
              StoppedIn(i, {"Offer"}) = {k} /\ calls[k].to = MatchClose(i)

----------------------------------------------------------------------------
(* C3                                                                      *)

\* the events from i on are a well-formed offer element; its length
IsGoodOffer(i, id) ==
    /\ i + Len(GoodOffer(id)) - 1 <= Len(input)
    /\ SubSeq(input, i, i + Len(GoodOffer(id)) - 1) = GoodOffer(id)

\* the offer element open at i has a categoryId that is no number
HasBadCategoryId(i) ==
    \E j \in (i + 1)..(MatchClose(i) - 1) :
        /\ IsOpen(j, "categoryId")
        /\ input[j + 1].type = "Text"
        /\ Parse("uint", Trim(input[j + 1].text)) = <<>>

\* C3: an offer with a non-numeric categoryId followed by a well-formed
\* offer: the calls yield exactly one error for the malformed offer, a
\* ValidationError, and the call after it returns the well-formed offer.
C3_OneValidationErrorThenOffer ==
    \A i \in ObservedOffers : \A id \in {<<"1">>, <<"2">>} :
        (/\ HasBadCategoryId(i)
         /\ IsGoodOffer(MatchClose(i) + 1, id)
         /\ MatchClose(MatchClose(i) + 1) <= pos)
        => \E k \in 1..(Len(calls) - 1) :
              /\ StoppedIn(i, ErrorKinds \cup {"Offer"}) = {k}
              /\ calls[k].ret.kind = "Validation"
              /\ calls[k + 1].ret.kind = "Offer"
              /\ calls[k + 1].ret.val.id = id
              /\ calls[k + 1].to = MatchClose(MatchClose(i) + 1)

----------------------------------------------------------------------------
(* C4                                                                      *)

\* the calls that returned an Offer or a YmlCatalog
Emitted == {k \in 1..Len(calls) : calls[k].ret.kind \in {"Offer", "YmlCatalog"}}

\* the close tag of the element the item of call k was made from
ItemClose(k) ==
    IF calls[k].ret.kind = "Offer" THEN MatchClose(OfferOpen(k))
    ELSE MatchClose(RootOpen)

\* C4: items come in document order: an item is returned once its close tag
\* has been consumed, and of two items the one returned first has the
\* earlier close tag; Offers come in the order of their open tags.
C4_DocumentOrder ==
    \A k \in Emitted :
        /\ ItemClose(k) # 0
        /\ ItemClose(k) <= calls[k].to
        /\ \A k2 \in Emitted :
              k < k2 =>
                /\ ItemClose(k) < ItemClose(k2)
                /\ calls[k].to < calls[k2].to
                /\ calls[k2].ret.kind = "Offer" =>
                      /\ calls[k].ret.kind = "Offer"
                      /\ OfferOpen(k) < OfferOpen(k2)

\* two Offers and then the catalog have been returned
C4_TwoOffersThenCatalog ==
    \E k \in 1..(Len(calls) - 2) :
        /\ calls[k].ret.kind = "Offer"
        /\ calls[k + 1].ret.kind = "Offer"
        /\ calls[k + 2].ret.kind = "YmlCatalog"
        /\ calls[k].ret.val.id # calls[k + 1].ret.val.id

----------------------------------------------------------------------------
(* C5                                                                      *)

\* the date attribute of the root tag, as begin stores it
RootDate ==
    IF HasAttr(input[RootOpen], "date") THEN AttrValue(input[RootOpen], "date")
    ELSE <<>>

\* the open tags named f that were delivered in state Shop, up to position p
ShopFields(f, p) ==
    {i \in 1..p : IsOpen(i, f) /\ StateAt(CallOf(i), i) = "Shop"}

\* the text of the last of them
ShopText(f, p) ==
    IF ShopFields(f, p) = {} THEN <<>>
    ELSE Trim(input[Max(ShopFields(f, p)) + 1].text)

\* the Shop that the name, company and url elements read up to p have built
ExpectedShop(p) ==
    IF ShopFields("name", p) \cup ShopFields("company", p) \cup ShopFields("url", p) = {}
    THEN <<>>
    ELSE <<[DefaultShop EXCEPT !.name = ShopText("name", p),
                               !.company = ShopText("company", p),
                               !.url = ShopText("url", p)]>>

\* C5: when a call reads the catalog close tag in state YmlCatalog, it stops
\* there, the state is End and it returns the YmlCatalog item with the date
\* of the root tag and the Shop built so far; the next call returns Eof.
C5_CatalogCloseReturnsHeader ==
    \A k \in 1..Len(calls) :
        \A i \in (calls[k].from + 1)..calls[k].to :
            (IsClose(i, "yml_catalog") /\ StateAt(k, i) = "YmlCatalog")
            => /\ calls[k].to = i
               /\ calls[k].after = "End"
               /\ calls[k].ret.kind = "YmlCatalog"
               /\ calls[k].ret.val.date = RootDate
               /\ calls[k].ret.val.shop = ExpectedShop(i)
               /\ (k < Len(calls) => calls[k + 1].ret.kind = "Eof")

\* the sequence Offer, YmlCatalog (with a Shop), Eof has been returned
C5_OfferCatalogEof ==
    \E k \in 1..(Len(calls) - 2) :
        /\ calls[k].ret.kind = "Offer"
        /\ calls[k + 1].ret.kind = "YmlCatalog"
        /\ calls[k + 1].ret.val.shop # <<>>
        /\ calls[k + 1].ret.val.date = DateS
        /\ calls[k + 2].ret.kind = "Eof"

----------------------------------------------------------------------------
(* C6                                                                      *)

\* C6 as stated: every time the shop scope closes (Shop -> YmlCatalog), the
\* call returns a YmlCatalog item at that point.
C6_HeaderAtEveryShopClose ==
    \A p \in ShopCloses :
        /\ calls[CallOf(p)].ret.kind = "YmlCatalog"
        /\ calls[CallOf(p)].to = p

\* C6, amended: the shop close tag moves the state to YmlCatalog and the call
\* reads on; a YmlCatalog item is returned only at the catalog close tag,
\* with the Shop built over all shop scopes, so a stream yields at most one,
\* however often the shop scope closes.
C6_HeaderOnlyAtCatalogClose ==
    /\ \A p \in ShopCloses :
          /\ IsClose(p, "shop")
          /\ calls[CallOf(p)].ret.kind \notin ErrorKinds => calls[CallOf(p)].to > p
    /\ \A k \in 1..Len(calls) :
          calls[k].ret.kind = "YmlCatalog"
          => /\ IsClose(calls[k].to, "yml_catalog")
             /\ calls[k].after = "End"
             /\ calls[k].ret.val.shop = ExpectedShop(calls[k].to)
    /\ Cardinality({k \in 1..Len(calls) : calls[k].ret.kind = "YmlCatalog"}) <= 1

\* the shop scope has closed twice and one YmlCatalog item has been returned
C6_TwoShopClosesOneHeader ==
    /\ Cardinality(ShopCloses) >= 2
    /\ \E k \in 1..Len(calls) : calls[k].ret.kind = "YmlCatalog"

----------------------------------------------------------------------------
(* C7                                                                      *)

\* the calls that ended in state Offers with an offer open tag ahead of the
\* position at which parse_offers started: the calls that parsed an offer
OfferCalls ==
    {k \in 1..Len(calls) :
        /\ calls[k].after = "Offers"
        /\ \E i \in (Started(k) + 1)..Len(input) : IsOpen(i, "offer")}

\* call k returned its Offer with `available` equal to v, if it returned one
AvailableIs(k, v) ==
    calls[k].ret.kind = "Offer" => calls[k].ret.val.available = v

\* call k returned a ValidationError carrying the literal v, at the open tag
InvalidAvailable(k, v) ==
    /\ calls[k].ret.kind = "Validation"
    /\ ErrValue(calls[k].ret.val) = <<v>>
    /\ calls[k].to = OfferOpen(k)

----------------------------------------------------------------------------
(* C8                                                                      *)

RECURSIVE TagsNamed(_, _, _)
\* the open and self-closing tags named n among the events lo..hi, in order
TagsNamed(n, lo, hi) ==
    IF lo > hi THEN <<>>
    ELSE IF input[lo].type \in {"Start", "Empty"} /\ input[lo].name = n
         THEN <<lo>> \o TagsNamed(n, lo + 1, hi)
    ELSE TagsNamed(n, lo + 1, hi)

\* the children named n of the element open at i
ChildTags(i, n) == TagsNamed(n, i + 1, MatchClose(i) - 1)

\* the option lists whose open tag has been delivered
OptionLists ==
    {i \in 1..pos : IsOpen(i, "delivery-options") \/ IsOpen(i, "pickup-options")}

\* the field of the Offer that the list open at i is stored in
OptionsField(i) ==
    IF input[i].name = "pickup-options" THEN "pickup_options" ELSE "delivery_options"

\* the option records made from the list open at i: those of the Shop when
\* it was read in state Shop, those of the returned Offer otherwise; none
\* when the call returned an error
OptionRecords(i) ==
    LET k == CallOf(i)
    IN  IF StateAt(k, i) = "Shop"
        THEN (IF calls[k].cat.shop = <<>> THEN <<>>
              ELSE calls[k].cat.shop[1].delivery_options)
        ELSE IF calls[k].ret.kind = "Offer" THEN calls[k].ret.val[OptionsField(i)]
        ELSE <<>>

IsNumber(v) == v # <<>> /\ AllDigits(v)

\* C8: the m-th option record of a list is made from the list's m-th option
\* tag; when the tag has no order-before attribute the record's order_before
\* is unset, and when it has a numeric one it is that number.
C8_OrderBefore ==
    \A i \in OptionLists :
        \A m \in 1..Len(OptionRecords(i)) :
            /\ m <= Len(ChildTags(i, "option"))
            /\ LET tag == input[ChildTags(i, "option")[m]]
                   rec == OptionRecords(i)[m]
               IN  IF ~HasAttr(tag, "order-before") THEN rec.order_before = <<>>
                   ELSE IsNumber(AttrValue(tag, "order-before"))
                        => rec.order_before = <<DigitsValue(AttrValue(tag, "order-before"))>>

\* an Offer has been returned whose first option has order-before 18 and
\* whose second has none
C8_NumberThenAbsent ==
    \E i \in OptionLists :
        /\ StateAt(CallOf(i), i) = "Offers"
        /\ Len(OptionRecords(i)) = 2
        /\ Len(ChildTags(i, "option")) = 2
        /\ HasAttr(input[ChildTags(i, "option")[1]], "order-before")
        /\ AttrValue(input[ChildTags(i, "option")[1]], "order-before") = <<"1", "8">>
        /\ ~HasAttr(input[ChildTags(i, "option")[2]], "order-before")
        /\ OptionRecords(i)[1].order_before = <<18>>
        /\ OptionRecords(i)[2].order_before = <<>>

----------------------------------------------------------------------------
(* C9                                                                      *)

\* the value of attribute key, or the empty string
AttrOrEmpty(tag, key) == IF HasAttr(tag, key) THEN AttrValue(tag, key) ELSE <<>>

\* the number in attribute key, or 0
AttrOrZero(tag, key) ==
    IF HasAttr(tag, key) THEN DigitsValue(AttrValue(tag, key)) ELSE 0

\* the text of the element whose open tag is event i
TextOf(i) ==
    IF input[i].type = "Start" /\ input[i + 1].type = "Text"
    THEN Trim(input[i + 1].text) ELSE <<>>

\* the record that the source gives for the child tag at event i of a list
SourceRecord(n, i) ==
    CASE n = "currencies" ->
            [id |-> AttrOrEmpty(input[i], "id"), rate |-> AttrOrEmpty(input[i], "rate"),
             plus |-> AttrOrEmpty(input[i], "plus")]
      [] n = "categories" ->
            [id |-> AttrOrZero(input[i], "id"),
             parent_id |-> AttrOrZero(input[i], "parentId"), name |-> TextOf(i)]
      [] n = "delivery-options" ->
            [cost |-> AttrOrZero(input[i], "cost"), days |-> AttrOrEmpty(input[i], "days"),
             order_before |-> IF HasAttr(input[i], "order-before")
                              THEN <<DigitsValue(AttrValue(input[i], "order-before"))>>
                              ELSE <<>>]

\* the nested lists of a shop: the tag of their children and their field
ShopListTags == {"currencies", "categories", "delivery-options"}

ChildName(n) ==
    CASE n = "currencies" -> "currency"
      [] n = "categories" -> "category"
      [] n = "delivery-options" -> "option"

ListField(n) == IF n = "delivery-options" THEN "delivery_options" ELSE n

\* the list that the source gives for the list element open at i
SourceList(i) ==
    [m \in 1..Len(ChildTags(i, ChildName(input[i].name))) |->
        SourceRecord(input[i].name, ChildTags(i, ChildName(input[i].name))[m])]

\* the shop lists whose open tag was delivered in state Shop
ShopLists ==
    {i \in 1..pos :
        /\ input[i].type = "Start"
        /\ input[i].name \in ShopListTags
        /\ StateAt(CallOf(i), i) = "Shop"}

\* C9: the Shop of a returned YmlCatalog holds, for each list of the shop
\* block, one element per child element, in source order, with the
\* attribute values of the source (parent_id 0 and plus "" when missing).
C9_ShopListsAsInSource ==
    \A k \in 1..Len(calls) :
        calls[k].ret.kind = "YmlCatalog"
        => \A i \in ShopLists :
              /\ calls[k].ret.val.shop # <<>>
              /\ calls[k].ret.val.shop[1][ListField(input[i].name)] = SourceList(i)

----------------------------------------------------------------------------
(* C10                                                                     *)

\* what C10 says of a call k made in Begin whose next open tag i is not the
\* catalog tag
BeginOtherTag(k, i) ==
    /\ calls[k].ret.kind = "UnexpectedTag"
    /\ calls[k].ret.val.tag = input[i].name
    /\ ErrValue(calls[k].ret.val) = <<input[i].name>>
    /\ calls[k].to = i
    /\ calls[k].after = "Begin"

\* what C10 says of a call k made in Begin whose next open tag i is the
\* catalog tag
BeginCatalogTag(k, i) ==
    /\ calls[k].trace # <<>>
    /\ calls[k].trace[1] = [from |-> "Begin", to |-> "YmlCatalog", pos |-> i]
    /\ calls[k].cat.date = IF HasAttr(input[i], "date")
                           THEN AttrValue(input[i], "date")
                           ELSE PrevCat(k).date

\* every attribute of the tag can be read and its date is valid UTF-8
ReadableAttrs(tag) ==
    \A n \in 1..Len(tag.attrs) :
        /\ ~tag.attrs[n].bad
        /\ tag.attrs[n].key = "date" => ValidUtf8(tag.attrs[n].value)

\* the calls made in Begin that found an open tag
BeginCalls ==
    {k \in 1..Len(calls) :
        calls[k].before = "Begin" /\ FirstOpenAfter(calls[k].from) # 0}

\* C10 as stated: in Begin the events before the first open tag are skipped;
\* the catalog tag stores its date and moves the state to YmlCatalog, any
\* other tag makes the call return UnexpectedTag with the tag's name.
C10_BeginAsStated ==
    \A k \in BeginCalls :
        LET i == FirstOpenAfter(calls[k].from)
        IN  IF input[i].name = "yml_catalog" THEN BeginCatalogTag(k, i)
            ELSE BeginOtherTag(k, i)

\* C10, amended: the same, but a catalog tag with an attribute that cannot
\* be read, or a date that is not valid UTF-8, makes the call return that
\* error (Xml, InvalidUtf8) at the tag, and the state remains Begin.
C10_BeginWithReadableAttrs ==
    \A k \in BeginCalls :
        LET i == FirstOpenAfter(calls[k].from)
        IN  IF input[i].name # "yml_catalog" THEN BeginOtherTag(k, i)
            ELSE IF ReadableAttrs(input[i]) THEN BeginCatalogTag(k, i)
            ELSE /\ calls[k].ret.kind \in {"Xml", "InvalidUtf8"}
                 /\ calls[k].to = i
                 /\ calls[k].after = "Begin"

\* a call in Begin has skipped a prologue, stored the date of the catalog
\* tag and gone on in YmlCatalog
C10_PrologueSkippedDateStored ==
    \E k \in BeginCalls :
        /\ FirstOpenAfter(calls[k].from) > 1
        /\ BeginCatalogTag(k, FirstOpenAfter(calls[k].from))
        /\ calls[k].cat.date = DateS

----------------------------------------------------------------------------
(* C11                                                                     *)

\* the edges the claim allows
Edges ==
    {<<"Begin", "YmlCatalog">>, <<"YmlCatalog", "Shop">>, <<"YmlCatalog", "End">>,
     <<"Shop", "Offers">>, <<"Shop", "YmlCatalog">>, <<"Offers", "Shop">>}

\* the assignments to self.state made by call k lead from the state before
\* the call to the state after it
Chained(k) ==
    /\ calls[k].trace = <<>> => calls[k].after = calls[k].before
    /\ calls[k].trace # <<>> =>
          /\ calls[k].trace[1].from = calls[k].before
          /\ Last(calls[k].trace).to = calls[k].after
    /\ \A n \in 1..(Len(calls[k].trace) - 1) :
          calls[k].trace[n + 1].from = calls[k].trace[n].to

\* the edges taken so far
EdgesTaken ==
    UNION {{<<calls[k].trace[n].from, calls[k].trace[n].to>> :
                n \in 1..Len(calls[k].trace)} : k \in 1..Len(calls)}

\* C11: the state is Begin before the first call; every change of self.state
\* is one of the six edges Begin->YmlCatalog, YmlCatalog->Shop,
\* YmlCatalog->End, Shop->Offers, Shop->YmlCatalog, Offers->Shop, within a
\* call and from one call to the next; so End is never left and Begin never
\* entered again.
C11_StateEdges ==
    /\ calls = <<>> => state = "Begin"
    /\ calls # <<>> => (calls[1].before = "Begin" /\ state = Last(calls).after)
    /\ \A k \in 1..Len(calls) :
          /\ Chained(k)
          /\ k > 1 => calls[k].before = calls[k - 1].after
          /\ calls[k].before = "End" => calls[k].after = "End"
          /\ calls[k].after = "Begin" => calls[k].before = "Begin"
    /\ EdgesTaken \subseteq Edges

\* a stream has taken each of the six edges
C11_AllEdgesTaken == EdgesTaken = Edges /\ state = "End"

----------------------------------------------------------------------------
(* C12                                                                     *)

\* the state assignments call k made at position i or later
AssignedFrom(k, i) ==
    {n \in 1..Len(calls[k].trace) : calls[k].trace[n].pos >= i}

\* C12: a call that receives an offer open tag in state Offers returns an
\* Offer (or the error of a read that failed inside it) and the state is
\* Offers when it returns; the state leaves Offers only for Shop and only at
\* an `offers` close tag; a call that returns an Offer received an offer open
\* tag in state Offers and ends in Offers.
C12_OfferLeavesStateOffers ==
    /\ \A i \in ObservedOffers :
          /\ calls[CallOf(i)].ret.kind \in {"Offer"} \cup ErrorKinds
          /\ calls[CallOf(i)].after = "Offers"
          /\ AssignedFrom(CallOf(i), i) = {}
    /\ \A k \in 1..Len(calls) :
          /\ \A n \in 1..Len(calls[k].trace) :
                calls[k].trace[n].from = "Offers"
                => /\ calls[k].trace[n].to = "Shop"
                   /\ IsClose(calls[k].trace[n].pos, "offers")
          /\ calls[k].ret.kind = "Offer"
             => /\ calls[k].after = "Offers"
                /\ \E i \in ObservedOffers : CallOf(i) = k

\* two calls in a row returned an Offer in state Offers and a later call
\* left Offers at the `offers` close tag
C12_TwoOffersThenLeft ==
    \E k \in 1..(Len(calls) - 2) :
        /\ calls[k].ret.kind = "Offer"
        /\ calls[k + 1].ret.kind = "Offer"
        /\ calls[k + 1].before = "Offers"
        /\ calls[k + 1].after = "Offers"
        /\ calls[k + 2].before = "Offers"
        /\ calls[k + 2].trace # <<>>
        /\ calls[k + 2].trace[1].to = "Shop"

----------------------------------------------------------------------------
(* C13                                                                     *)

\* the open tag of the element that event j lies directly in; 0 at the top
Encloser(j) ==
    LET S == {i \in 1..(j - 1) : input[i].type = "Start" /\ MatchClose(i) > j}
    IN  IF S = {} THEN 0 ELSE Max(S)

\* the tags parse_shop and parse_shop_field look for
ShopTagNames ==
    {"offers", "name", "company", "url", "currencies", "categories",
     "delivery-options"}

\* the tags parse_offer_field looks for
OfferTagNames ==
    DOMAIN TextField \cup DOMAIN ValueField \cup DOMAIN OptField
    \cup {"price", "oldprice", "barcode", "param", "condition",
          "credit-template", "delivery-options", "pickup-options"}

\* the elements delivered so far that lie directly in a shop or an offer
\* element and are not recognised there
UnknownElements ==
    {j \in 1..pos :
        /\ input[j].type = "Start"
        /\ Encloser(j) # 0
        /\ \/ input[Encloser(j)].name = "shop" /\ input[j].name \notin ShopTagNames
           \/ input[Encloser(j)].name = "offer" /\ input[j].name \notin OfferTagNames}

\* the children named f of the element open at i (not those further down)
DirectChildren(i, f) ==
    {j \in (i + 1)..(MatchClose(i) - 1) : IsOpen(j, f) /\ Encloser(j) = i}

\* the text of the last of a set of elements; empty when there is none
LastText(S) == IF S = {} THEN <<>> ELSE TextOf(Max(S))

\* the shop elements of the feed
ShopOpens == {i \in 1..Len(input) : IsOpen(i, "shop")}

\* C13: no call returns an error from inside an unrecognised element of a
\* shop or an offer, and such an element changes no field: the name and the
\* category of a returned Offer are those of the offer's own children, and
\* the name of the Shop in the header is that of the shop's own children.
C13_UnknownElementsSkipped ==
    /\ \A k \in 1..Len(calls) :
          calls[k].ret.kind \in ErrorKinds
          => \A j \in UnknownElements :
                ~(j <= calls[k].to /\ calls[k].to <= MatchClose(j))
    /\ \A k \in 1..Len(calls) :
          calls[k].ret.kind = "Offer"
          => /\ calls[k].ret.val.name
                  = LastText(DirectChildren(OfferOpen(k), "name"))
             /\ calls[k].ret.val.category_id
                  = DigitsValue(LastText(DirectChildren(OfferOpen(k), "categoryId")))
    /\ \A k \in 1..Len(calls) :
          calls[k].ret.kind = "YmlCatalog"
          => /\ calls[k].ret.val.shop # <<>>
             /\ calls[k].ret.val.shop[1].name
                  = LastText(UNION {DirectChildren(i, "name") : i \in ShopOpens})

----------------------------------------------------------------------------
(* C14                                                                     *)

\* the error kinds other than Xml
Recoverable == {"UnexpectedTag", "InvalidUtf8", "Validation"}

\* C14: main calls next_item again after every outcome but two: an Xml error
\* ends main with CliError::ParseXml, and Eof ends the loop, after which
\* main returns Ok; so no call follows an Xml error or an Eof, and after any
\* other error (or item) main is at the head of its loop, where the next
\* call is made.
C14_DriverStops ==
    /\ \A k \in 1..(Len(calls) - 1) : calls[k].ret.kind \notin {"Xml", "Eof"}
    /\ calls # <<>> =>
          /\ Last(calls).ret.kind = "Xml"
             => (main.pc = "done" /\ main.result = <<"ParseXml">>)
          /\ Last(calls).ret.kind \in Recoverable \cup {"Offer", "YmlCatalog"}
             => (main.pc = "loop" /\ main.result = <<>>)
          /\ Last(calls).ret.kind = "Eof"
             => (main.pc \in {"after_loop", "done"} /\ main.result \in {<<>>, <<"Ok">>})
    /\ main.pc = "after_loop" => (calls # <<>> /\ Last(calls).ret.kind = "Eof")
    /\ main.result = <<"Ok">> => (calls # <<>> /\ Last(calls).ret.kind = "Eof")
    /\ main.result = <<"ParseXml">> => (calls # <<>> /\ Last(calls).ret.kind = "Xml")
    /\ main.pc = "loop" => main.result = <<>>

\* main went on after three recoverable errors and was ended by an Xml error
C14_WentOnThenStopped ==
    /\ Len(calls) >= 4
    /\ \A k \in 1..3 : calls[k].ret.kind \in Recoverable
    /\ Last(calls).ret.kind = "Xml"
    /\ main.result = <<"ParseXml">>

----------------------------------------------------------------------------
(* C15                                                                     *)

RECURSIVE Balanced(_, _)
\* from event j on, with `open` the names of the elements open there (the
\* innermost first): every close tag closes the innermost open element, the
\* tokenizer rejects nothing, and nothing is left open at the end
Balanced(j, open) ==
    IF j > Len(input) THEN open = <<>>
    ELSE CASE input[j].type = "Start" -> Balanced(j + 1, <<input[j].name>> \o open)
           [] input[j].type = "End" ->
                /\ open # <<>>
                /\ Head(open) = input[j].name
                /\ Balanced(j + 1, Tail(open))
           [] input[j].type = "Error" -> FALSE
           [] OTHER -> Balanced(j + 1, open)

\* the feed is a well-formed, complete document whose root is the catalog
\* tag: tags nest, every attribute can be read, every text and attribute
\* value is valid UTF-8, and only the prologue precedes the root
WellFormedCatalog ==
    /\ Balanced(1, <<>>)
    /\ \A i \in 1..Len(input) :
          /\ ValidUtf8(input[i].text)
          /\ \A n \in 1..Len(input[i].attrs) :
                ~input[i].attrs[n].bad /\ ValidUtf8(input[i].attrs[n].value)
    /\ RootOpen # 0
    /\ input[RootOpen].name = "yml_catalog"
    /\ MatchClose(RootOpen) = Len(input)
    /\ \A i \in 1..(RootOpen - 1) : input[i].type \in {"Decl", "Comment"}

\* C15: an Xml error is returned only for markup the tokenizer rejects or
\* for a feed that ends before a close tag that is due; no call on a
\* well-formed, complete catalog document returns an Xml error.
C15_SyntaxErrorOnlyIfMalformed ==
    \A k \in 1..Len(calls) :
        calls[k].ret.kind = "Xml"
        => /\ calls[k].ret.val.source \in {"tokenizer", "attribute", "UnexpectedEof"}
           /\ ~WellFormedCatalog

----------------------------------------------------------------------------
(* C16                                                                     *)

\* C16: UnexpectedTag is returned only by a call made in Begin, for the
\* first open tag it meets, which is not the catalog tag; and once it has
\* been returned, no later call returns an Offer or a YmlCatalog.
C16_UnexpectedTagIsFatal ==
    \A k \in 1..Len(calls) :
        calls[k].ret.kind = "UnexpectedTag"
        => /\ calls[k].before = "Begin"
           /\ calls[k].to = FirstOpenAfter(calls[k].from)
           /\ input[calls[k].to].name # "yml_catalog"
           /\ \A k2 \in (k + 1)..Len(calls) :
                 calls[k2].ret.kind \notin {"Offer", "YmlCatalog"}

----------------------------------------------------------------------------
(* C17                                                                     *)

\* the literals at the place where call k stopped: the values of the
\* attributes of the tag, or the trimmed text before the close tag
LiteralsAt(k) ==
    LET i == calls[k].to
    IN  {input[i].attrs[n].value : n \in 1..Len(input[i].attrs)}
        \cup (IF i > 1 /\ input[i - 1].type \in {"Text", "CData"}
              THEN {Trim(input[i - 1].text)} ELSE {})

\* C17: every error returned carries a line and a column; value() yields
\* the name of the tag for UnexpectedTag, the literal that failed to parse
\* for Validation, and nothing for Xml and InvalidUtf8.
C17_ErrorAccessors ==
    \A k \in 1..Len(calls) :
        calls[k].ret.kind \in ErrorKinds
        => /\ calls[k].ret.val.line \in Nat
           /\ calls[k].ret.val.column \in Nat
           /\ CASE calls[k].ret.kind = "UnexpectedTag" ->
                      ErrValue(calls[k].ret.val) = <<input[calls[k].to].name>>
                [] calls[k].ret.kind = "Validation" ->
                      /\ Len(ErrValue(calls[k].ret.val)) = 1
                      /\ ErrValue(calls[k].ret.val)[1] \in LiteralsAt(k)
                [] OTHER -> ErrValue(calls[k].ret.val) = <<>>

\* one stream has returned an error of each of the four kinds
C17_AllFourKinds ==
    \A kind \in ErrorKinds : \E k \in 1..Len(calls) : calls[k].ret.kind = kind

----------------------------------------------------------------------------
(* C18                                                                     *)

\* C18: the scratch buffer never holds the bytes of more than one event.
C18_BufferHoldsOneEvent == buf <= 1

----------------------------------------------------------------------------
(* C19                                                                     *)

RECURSIVE OffersUpTo(_)
\* the Offers returned by the first k calls, in order
OffersUpTo(k) ==
    IF k = 0 THEN <<>>
    ELSE IF calls[k].ret.kind = "Offer" THEN Append(OffersUpTo(k - 1), calls[k].ret.val)
    ELSE OffersUpTo(k - 1)

EmittedOffers == OffersUpTo(Len(calls))

\* C19: without --dry-run and with --offers-chunk N > 0, the k-th Offer
\* returned (k from 0) is message k mod N of the file offers-(k div N); so
\* every file but the last holds exactly N offers, the last one fewer than
\* N, and the file being written is the last one.
C19_Chunks ==
    (~opts.dry_run /\ opts.offers_chunk_size > 0)
    => /\ \A k \in 0..(Len(EmittedOffers) - 1) :
             /\ (k \div opts.offers_chunk_size) + 1 <= Len(output_dir.offers)
             /\ (k % opts.offers_chunk_size) + 1
                   <= Len(output_dir.offers[(k \div opts.offers_chunk_size) + 1])
             /\ output_dir.offers[(k \div opts.offers_chunk_size) + 1]
                                 [(k % opts.offers_chunk_size) + 1]
                   = EmittedOffers[k + 1]
       /\ Len(output_dir.offers) = (Len(EmittedOffers) \div opts.offers_chunk_size) + 1
       /\ \A f \in 1..(Len(output_dir.offers) - 1) :
             Len(output_dir.offers[f]) = opts.offers_chunk_size
       /\ Len(Last(output_dir.offers)) = Len(EmittedOffers) % opts.offers_chunk_size
       /\ main.chunk_ix = Len(output_dir.offers) - 1
       /\ main.chunk_offers = Len(Last(output_dir.offers))
       /\ main.offers_writer = <<main.chunk_ix>>

\* with --offers-chunk 2, three Offers went to offers-0 (two) and offers-1
\* (one) and main has returned
C19_ThreeOffersTwoChunks ==
    /\ ~opts.dry_run
    /\ opts.offers_chunk_size = 2
    /\ Len(EmittedOffers) = 3
    /\ Len(output_dir.offers) = 2
    /\ Len(output_dir.offers[1]) = 2
    /\ output_dir.offers[2] = <<EmittedOffers[3]>>
    /\ main.result = <<"Ok">>

----------------------------------------------------------------------------
(* C20                                                                     *)

\* the nested lists delivered so far: those of the shop and the option
\* lists of the offers
NestedLists ==
    ShopLists \cup {i \in OptionLists : StateAt(CallOf(i), i) = "Offers"}

\* the tag of the children of the list open at i
ListChild(i) ==
    IF input[i].name = "pickup-options" THEN "option" ELSE ChildName(input[i].name)

\* the list made from the list element open at i
ListRecords(i) ==
    IF i \in ShopLists
    THEN (IF calls[CallOf(i)].cat.shop = <<>> THEN <<>>
          ELSE calls[CallOf(i)].cat.shop[1][ListField(input[i].name)])
    ELSE OptionRecords(i)

\* C20: unless a value of a child fails to parse, the list made from a
\* nested list element has as many elements as the element has matching
\* children, written as open/close pairs or as self-closing tags.
C20_OneElementPerChild ==
    \A i \in NestedLists :
        calls[CallOf(i)].ret.kind \notin {"Validation", "InvalidUtf8"}
        => Len(ListRecords(i)) = Len(ChildTags(i, ListChild(i)))

----------------------------------------------------------------------------
(* C21                                                                     *)

\* C21: content of a nested list that is no matching child causes no
\* error, no call returns an error from inside a nested list, and adds no
\* element and takes none away: the list made has one element per matching
\* child.
C21_OtherContentIgnored ==
    \A i \in NestedLists :
        /\ \A k \in 1..Len(calls) :
              calls[k].ret.kind \in ErrorKinds
              => ~(i <= calls[k].to /\ calls[k].to <= MatchClose(i))
        /\ (MatchClose(i) <= pos /\ calls[CallOf(i)].ret.kind \notin ErrorKinds)
           => Len(ListRecords(i)) = Len(ChildTags(i, ListChild(i)))

----------------------------------------------------------------------------
(* C22                                                                     *)

\* the tags of an offer whose arm of parse_offer_field begins by reading
\* the tag's text
ReadTags ==
    DOMAIN TextField \cup DOMAIN ValueField \cup DOMAIN OptField
    \cup {"price", "oldprice", "barcode", "param"}

\* the event that closes the tag at event j: the tag itself when it is
\* self-closing; 0 when the feed ends first
OwnClose(j) == IF input[j].type = "Empty" THEN j ELSE MatchClose(j)

RECURSIVE Fragments(_, _)
\* the trimmed text and CDATA fragments among the events lo..hi, in order
Fragments(lo, hi) ==
    IF lo > hi THEN <<>>
    ELSE IF input[lo].type \in {"Text", "CData"}
         THEN Trim(input[lo].text) \o Fragments(lo + 1, hi)
    ELSE Fragments(lo + 1, hi)

\* the text of the element whose tag is event j
OwnText(j) ==
    IF input[j].type = "Empty" THEN <<>> ELSE Fragments(j + 1, MatchClose(j) - 1)

RECURSIVE Dispatched(_, _)
\* the tags that the loop of parse_offer_fields, reading on from event j,
\* handed to parse_offer_field, up to event `last`
Dispatched(j, last) ==
    LET After(r) ==
            IF IsErr(r) THEN {j} ELSE {j} \cup Dispatched(r.c.pos + 1, last)
    IN  IF j > last THEN {}
        ELSE IF input[j].type \in {"Start", "Empty"}
             THEN After(ParseOfferField(input[j], DefaultOffer, [pos |-> j, buf |-> 0]))
        ELSE IF IsClose(j, "offer") THEN {}
        ELSE Dispatched(j + 1, last)

\* the read of the text of the tag at event j stops at the tag's own close
\* event or before it, and what it returns is the tag's own text
ReadWithin(j) ==
    LET Stops(r) ==
            /\ r.c.pos <= (IF OwnClose(j) = 0 THEN Len(input) ELSE OwnClose(j))
            /\ ~IsErr(r) => (r.c.pos = OwnClose(j) /\ r.val = OwnText(j))
    IN  Stops(ReadText([pos |-> j, buf |-> 0]))

\* C22: the read of a scalar made for a tag of an offer, or for the name,
\* company or url of the shop, consumes events up to and including the
\* tag's own close event and no further, and returns the concatenation of
\* the trimmed text and CDATA fragments before it.
C22_ReadStopsAtOwnClose ==
    /\ \A k \in OfferCalls :
          calls[k].to > OfferOpen(k)
          => \A j \in Dispatched(OfferOpen(k) + 1, calls[k].to) :
                input[j].name \in ReadTags => ReadWithin(j)
    /\ \A f \in {"name", "company", "url"} :
          \A j \in ShopFields(f, pos) : ReadWithin(j)

----------------------------------------------------------------------------
(* C23                                                                     *)

\* the value that text x denotes in type ty, for the texts of the feeds:
\* Some(value), or None when x is no literal of the type
ScalarValue(ty, x) ==
    CASE ty = "uint" /\ x = <<"7">> -> <<7>>
      [] ty = "bool" /\ x = TrueS -> <<TRUE>>
      [] ty = "bool" /\ x = FalseS -> <<FALSE>>
      [] ty = "f32" /\ x = <<"7">> -> <<[num |-> 7, exp10 |-> 0]>>
      [] ty = "f32" /\ x = <<"1", ".", "5">> -> <<[num |-> 15, exp10 |-> 0 - 1]>>
      [] OTHER -> <<>>

\* the type of a scalar tag and the field of the Offer it is stored in
ScalarType(n) ==
    CASE n = "price" -> "f32"
      [] n \in DOMAIN ValueField -> ValueField[n].ty
      [] OTHER -> OptField[n].ty

ScalarField(n) ==
    CASE n = "price" -> "price"
      [] n \in DOMAIN ValueField -> ValueField[n].field
      [] OTHER -> OptField[n].field

\* what a required field holds when its text denotes v
RequiredValue(n, v) == IF n = "price" THEN <<[price |-> v, from |-> FALSE]>> ELSE v

\* call k returned a ValidationError carrying text x, at the close tag j
FailedWith(k, x, j) ==
    /\ calls[k].ret.kind = "Validation"
    /\ ErrValue(calls[k].ret.val) = <<x>>
    /\ calls[k].to = j

\* call k returned an Offer whose field for tag n is v
FieldIs(k, n, v) ==
    calls[k].ret.kind = "Offer" /\ calls[k].ret.val[ScalarField(n)] = v

\* the calls that read the first child of an offer, an open tag
FirstChildCalls ==
    {k \in OfferCalls :
        calls[k].to > OfferOpen(k) /\ input[OfferOpen(k) + 1].type = "Start"}

\* C23: a required scalar field (categoryId, weight, downloadable,
\* enable_auto_discounts, manufacturer_warranty, price) holds the value of
\* its text, and text that is no literal of its type, the empty text
\* included, yields ValidationError carrying the text; an optional field
\* (delivery, pickup, store) is unset for the empty text, holds the value of
\* a literal, and yields ValidationError for any other text.
C23_RequiredAndOptional ==
    \A k \in FirstChildCalls :
        LET j == OfferOpen(k) + 1
            n == input[j].name
            x == OwnText(j)
            v == ScalarValue(ScalarType(n), x)
        IN  /\ n \in RequiredTags =>
                  IF v = <<>> THEN FailedWith(k, x, MatchClose(j))
                  ELSE FieldIs(k, n, RequiredValue(n, v[1]))
            /\ n \in OptionalTags =>
                  IF x = <<>> THEN FieldIs(k, n, <<>>)
                  ELSE IF v = <<>> THEN FailedWith(k, x, MatchClose(j))
                  ELSE FieldIs(k, n, v)

\* an empty weight gave a ValidationError carrying the empty text, the empty
\* store of the next offer left the field unset, and the delivery "x" of the
\* third gave a ValidationError carrying "x"
C23_EmptyRequiredEmptyOptional ==
    \E k \in 1..(Len(calls) - 2) :
        /\ {k, k + 1, k + 2} \subseteq FirstChildCalls
        /\ input[OfferOpen(k) + 1].name = "weight"
        /\ calls[k].ret.kind = "Validation"
        /\ ErrValue(calls[k].ret.val) = <<<<>>>>
        /\ input[OfferOpen(k + 1) + 1].name = "store"
        /\ calls[k + 1].ret.kind = "Offer"
        /\ calls[k + 1].ret.val.store = <<>>
        /\ input[OfferOpen(k + 2) + 1].name = "delivery"
        /\ calls[k + 2].ret.kind = "Validation"
        /\ ErrValue(calls[k + 2].ret.val) = <<<<"x">>>>

----------------------------------------------------------------------------
(* C24                                                                     *)

\* the literals of the feeds that denote an unsigned integer
IsUIntLiteral(v) == v \in {<<"8", "0">>, <<"+", "5">>, <<"2">>}

\* the attributes of a tag with a key of `keys` whose value is no unsigned
\* integer
BadNumAttrs(tag, keys) ==
    {n \in 1..Len(tag.attrs) :
        tag.attrs[n].key \in keys /\ ~IsUIntLiteral(tag.attrs[n].value)}

\* call k returned, at the tag at event j, the error of the literal v:
\* ValidationError carrying v, or InvalidUtf8 when v cannot be decoded
RejectedAt(k, v, j) ==
    /\ calls[k].to = j
    /\ IF ValidUtf8(v)
       THEN calls[k].ret.kind = "Validation" /\ ErrValue(calls[k].ret.val) = <<v>>
       ELSE calls[k].ret.kind = "InvalidUtf8"

\* no call returned an Offer for the offer element open at i
NoOfferFor(i) ==
    /\ StoppedIn(i, {"Offer"}) = {}
    /\ \A k \in 1..Len(calls) :
          calls[k].ret.kind = "Offer" => calls[k].ret.val.id # AttrValue(input[i], "id")

\* the option lists that parse_delivery_options read: in the shop, or in an
\* offer whose attributes were read
ReadOptionLists ==
    {i \in OptionLists :
        \/ StateAt(CallOf(i), i) = "Shop"
        \/ /\ Encloser(i) # 0
           /\ IsOpen(Encloser(i), "offer")
           /\ BadNumAttrs(input[Encloser(i)], {"bid", "cbid"}) = {}}

\* the first option tag of list i whose cost is no unsigned integer; 0
\* when there is none
FirstBadCost(i) ==
    LET S == {m \in 1..Len(ChildTags(i, "option")) :
                 BadNumAttrs(input[ChildTags(i, "option")[m]], {"cost"}) # {}}
    IN  IF S = {} THEN 0 ELSE ChildTags(i, "option")[Min(S)]

\* C24: a bid or cbid of an offer that is no unsigned integer makes the
\* call that read the offer tag return ValidationError carrying the
\* literal (InvalidUtf8 when it cannot be decoded), at the tag: no later
\* attribute decides the outcome and no child is consumed; the same for the
\* cost of an option; and no Offer is returned for that offer element.
C24_NumericAttributes ==
    /\ \A k \in OfferCalls :
          LET i == OfferOpen(k)
              bad == BadNumAttrs(input[i], {"bid", "cbid"})
          IN  bad # {} =>
                 /\ RejectedAt(k, input[i].attrs[Min(bad)].value, i)
                 /\ NoOfferFor(i)
    /\ \A i \in ReadOptionLists :
          LET j == FirstBadCost(i)
              bad == BadNumAttrs(input[j], {"cost"})
          IN  (j # 0 /\ j <= pos) =>
                 /\ RejectedAt(CallOf(j), input[j].attrs[Min(bad)].value, j)
                 /\ StateAt(CallOf(i), i) = "Offers" => NoOfferFor(Encloser(i))

\* an offer tag with bid "x" and, after it, an `available` that is no
\* boolean gave a ValidationError carrying "x" at the tag, and the next call
\* returned the Offer of the element after it
C24_BadBidThenNextOffer ==
    \E k \in 1..(Len(calls) - 1) :
        /\ k \in OfferCalls
        /\ HasAttr(input[OfferOpen(k)], "bid")
        /\ AttrValue(input[OfferOpen(k)], "bid") = <<"x">>
        /\ HasAttr(input[OfferOpen(k)], "available")
        /\ calls[k].ret.kind = "Validation"
        /\ ErrValue(calls[k].ret.val) = <<<<"x">>>>
        /\ calls[k].to = OfferOpen(k)
        /\ calls[k + 1].ret.kind = "Offer"
        /\ calls[k + 1].ret.val.id = <<"1">>

----------------------------------------------------------------------------
(* C25                                                                     *)

\* call k returned the Xml error of an unexpected end of input
EndOfInput(k) ==
    calls[k].ret.kind = "Xml" /\ calls[k].ret.val.source = "UnexpectedEof"

\* C25: Eof is returned only by a call made in state End, and the state
\* becomes End only at the catalog close tag; a call made at the end of
\* the input in any other state returns the Xml error UnexpectedEof and
\* leaves the state as it was, so every later call does the same; a call
\* that read the last event and left the state short of End returned an
\* Offer or an error.
C25_EndOfInputIsSyntaxError ==
    \A k \in 1..Len(calls) :
        /\ calls[k].ret.kind = "Eof" => calls[k].before = "End"
        /\ calls[k].after = "End" => \E p \in 1..calls[k].to : IsClose(p, "yml_catalog")
        /\ (calls[k].from = Len(input) /\ calls[k].before # "End")
           => /\ EndOfInput(k)
              /\ calls[k].after = calls[k].before
              /\ calls[k].to = Len(input)
        /\ (calls[k].to = Len(input) /\ calls[k].after # "End")
           => calls[k].ret.kind \in {"Offer"} \cup ErrorKinds
        /\ (EndOfInput(k) /\ k < Len(calls))
           => (EndOfInput(k + 1) /\ calls[k + 1].after = calls[k].after)

\* a feed that ends in the text of a scalar of an offer: three calls in a
\* row returned UnexpectedEof, the state Offers throughout
C25_ThriceAtEndInOffer ==
    /\ input # <<>>
    /\ Last(input).type = "Text"
    /\ \E k \in 1..(Len(calls) - 2) :
          \A n \in k..(k + 2) : EndOfInput(n) /\ calls[n].after = "Offers"

----------------------------------------------------------------------------
(* C26                                                                     *)

\* the entry the claim describes for an error: line, column, message, and
\* the offending value or the empty string
EntryOf(e) ==
    [line |-> e.line, column |-> e.column, message |-> Display(e),
     value |-> CASE e.kind = "UnexpectedTag" -> e.tag
                 [] e.kind = "Validation" -> e.value
                 [] OTHER -> <<>>]

RECURSIVE EntriesUpTo(_)
\* the entries of the recoverable errors returned by the first k calls
EntriesUpTo(k) ==
    IF k = 0 THEN <<>>
    ELSE IF calls[k].ret.kind \in Recoverable
         THEN Append(EntriesUpTo(k - 1), EntryOf(calls[k].ret.val))
    ELSE EntriesUpTo(k - 1)

\* C26: the error list of main holds one entry for every recoverable error
\* returned so far, in order, and none for anything else; the total counts
\* the Offers returned and the errors recorded, and the count of records
\* with errors is the length of the error list; so too when the loop is left.
C26_Counters ==
    /\ main.errors = EntriesUpTo(Len(calls))
    /\ main.total_offers = Len(EmittedOffers) + Len(main.errors)
    /\ main.offers_with_errors = Len(main.errors)

\* main has returned Ok after two Offers and one ValidationError
C26_TwoOffersOneError ==
    /\ main.result = <<"Ok">>
    /\ Len(EmittedOffers) = 2
    /\ Len(main.errors) = 1
    /\ main.errors[1].value = <<"x", "1">>
    /\ main.total_offers = 3
    /\ main.offers_with_errors = 1

----------------------------------------------------------------------------
(* C27                                                                     *)

\* every call so far stopped within the feed, and a call made in a state
\* other than End consumed an event or reported the end of input
CallsAdvance ==
    \A k \in 1..Len(calls) :
        /\ calls[k].to <= Len(input)
        /\ calls[k].before # "End"
           => \/ calls[k].to > calls[k].from
              \/ EndOfInput(k) /\ calls[k].from = Len(input)

\* C27: every call of next_item returns having consumed finitely many
\* events; a call made in a state other than End consumes at least one
\* event or returns the Xml error of the end of input; main makes at most
\* one call more than there are events consumed, and its loop ends: main
\* returns.
C27_DriverTerminates ==
    /\ [](CallsAdvance /\ Len(calls) <= pos + 1)
    /\ <>(main.pc = "done")

\* main has returned Ok after five calls that consumed the whole feed
C27_ReturnedAfterFiveCalls ==
    /\ main.pc = "done"
    /\ main.result = <<"Ok">>
    /\ Len(calls) = 5
    /\ pos = Len(input)

----------------------------------------------------------------------------
(* C28                                                                     *)

\* the assignment e to self.state was made at the event that causes it
AtItsEvent(e) ==
    CASE <<e.from, e.to>> = <<"Begin", "YmlCatalog">> -> IsOpen(e.pos, "yml_catalog")
      [] <<e.from, e.to>> = <<"YmlCatalog", "Shop">> -> IsOpen(e.pos, "shop")
      [] <<e.from, e.to>> = <<"YmlCatalog", "End">> -> IsClose(e.pos, "yml_catalog")
      [] <<e.from, e.to>> = <<"Shop", "Offers">> ->
            input[e.pos].type \in {"Start", "Empty"} /\ input[e.pos].name = "offers"
      [] <<e.from, e.to>> = <<"Shop", "YmlCatalog">> -> IsClose(e.pos, "shop")
      [] <<e.from, e.to>> = <<"Offers", "Shop">> -> IsClose(e.pos, "offers")
      [] OTHER -> FALSE

\* the first event after p that parse_offers acts on; 0 when there is none
NextInOffers(p) ==
    LET S == {i \in (p + 1)..Len(input) : IsOpen(i, "offer") \/ IsClose(i, "offers")}
    IN  IF S = {} THEN 0 ELSE Min(S)

\* call k + 1 went on in state Offers from the position call k stopped at
ResumedInOffers(k) ==
    LET j == NextInOffers(calls[k].to)
    IN  /\ j = 0 => EndOfInput(k + 1) /\ calls[k + 1].after = "Offers"
        /\ j # 0 /\ IsOpen(j, "offer") =>
              /\ calls[k + 1].trace = <<>>
              /\ calls[k + 1].ret.kind \in {"Offer"} \cup ErrorKinds
              /\ calls[k + 1].to >= j
        /\ j # 0 /\ IsClose(j, "offers") =>
              /\ calls[k + 1].trace # <<>>
              /\ calls[k + 1].trace[1] = [from |-> "Offers", to |-> "Shop", pos |-> j]

\* the calls that returned an error
ErrorCalls == {k \in 1..Len(calls) : calls[k].ret.kind \in ErrorKinds}

\* C28: when next_item returns an error the state is the one whose handler
\* failed: the state before the call, or the one the last successful handler
\* of the call assigned at its own event, the failing handler having read on
\* from there and assigned nothing; the next call starts in that state at
\* the position the failing read stopped at (in Offers: it passes on to the
\* next offer open tag or the offers close tag).
C28_ErrorKeepsState ==
    \A k \in ErrorCalls :
        /\ Chained(k)
        /\ \A n \in 1..Len(calls[k].trace) : AtItsEvent(calls[k].trace[n])
        /\ Started(k) <= calls[k].to
        /\ ~EndOfInput(k) => Started(k) < calls[k].to
        /\ k < Len(calls) =>
              /\ calls[k + 1].before = calls[k].after
              /\ calls[k + 1].from = calls[k].to
              /\ StateAt(k + 1, calls[k].to + 1) = calls[k].after
              /\ calls[k].after = "Offers" => ResumedInOffers(k)

\* the first call went from Begin to Shop and failed there, in parse_shop;
\* the second call went on in Shop from where the first had stopped and
\* returned an item
C28_FailedInShopThenWentOn ==
    /\ Len(calls) >= 2
    /\ calls[1].ret.kind = "Validation"
    /\ Len(calls[1].trace) = 2
    /\ calls[1].after = "Shop"
    /\ calls[2].before = "Shop"
    /\ calls[2].from = calls[1].to
    /\ calls[2].ret.kind \in {"Offer", "YmlCatalog"}

----------------------------------------------------------------------------
(* C29                                                                     *)

\* the calls that returned the catalog, and those that returned Eof
HeaderCalls == {k \in 1..Len(calls) : calls[k].ret.kind = "YmlCatalog"}
EofCalls == {k \in 1..Len(calls) : calls[k].ret.kind = "Eof"}

\* C29: over the calls made on one feed at most one returns the catalog; it
\* is the call that moves the state to End (at the yml_catalog close tag),
\* and every call that moves the state to End returns it; the first call
\* that returns Eof comes right after it, and no call after it returns an
\* Offer.
C29_OneHeaderBeforeEof ==
    /\ Cardinality(HeaderCalls) <= 1
    /\ \A k \in 1..Len(calls) :
          (calls[k].before # "End" /\ calls[k].after = "End") <=> k \in HeaderCalls
    /\ \A k \in HeaderCalls :
          /\ Last(calls[k].trace) =
                [from |-> "YmlCatalog", to |-> "End", pos |-> calls[k].to]
          /\ IsClose(calls[k].to, "yml_catalog")
          /\ \A j \in (k + 1)..Len(calls) : calls[j].ret.kind = "Eof"
    /\ EofCalls # {} => (Min(EofCalls) - 1) \in HeaderCalls

\* an Offer, the catalog, then Eof twice: one catalog in all
C29_OfferHeaderEofEof ==
    \E k \in HeaderCalls :
        /\ k > 1
        /\ calls[k - 1].ret.kind = "Offer"
        /\ Len(calls) >= k + 2
        /\ calls[k + 1].ret.kind = "Eof"
        /\ calls[k + 2].ret.kind = "Eof"
        /\ HeaderCalls = {k}

----------------------------------------------------------------------------
(* C30                                                                     *)

\* the Offer that the attributes and the children of the offer element open
\* at event i give, on a fresh record (the feeds set id, bid, name, vendor
\* and categoryId)
OwnOffer(i) ==
    [DefaultOffer EXCEPT
        !.id = AttrOrEmpty(input[i], "id"),
        !.bid = AttrOrZero(input[i], "bid"),
        !.name = LastText(DirectChildren(i, "name")),
        !.vendor = LastText(DirectChildren(i, "vendor")),
        !.category_id = DigitsValue(LastText(DirectChildren(i, "categoryId")))]

\* C30: every Offer returned is the default record with the values of the
\* attributes and children that lie between its own open tag and its own
\* close tag, and the call that returns it has read no further than that
\* close tag: nothing of another offer element is in it, also when a
\* recognised child is written as a self-closing tag.
C30_OfferFromOwnElement ==
    \A k \in 1..Len(calls) :
        calls[k].ret.kind = "Offer"
        => /\ calls[k].to = MatchClose(OfferOpen(k))
           /\ calls[k].ret.val = OwnOffer(OfferOpen(k))

----------------------------------------------------------------------------
(* C31                                                                     *)

\* the option records that the source gives for the list element open at i
SourceOptions(i) ==
    [m \in 1..Len(ChildTags(i, "option")) |->
        SourceRecord("delivery-options", ChildTags(i, "option")[m])]

\* the list of the last of the elements S, by f; empty when there is none
LastList(S, f(_)) == IF S = {} THEN <<>> ELSE f(Max(S))

\* the barcodes and the params that the source gives for the offer open at i
SourceBarcodes(i) ==
    [m \in 1..Len(ChildTags(i, "barcode")) |-> TextOf(ChildTags(i, "barcode")[m])]
SourceParams(i) ==
    [m \in 1..Len(ChildTags(i, "param")) |->
        [DefaultParam EXCEPT
            !.name = AttrOrEmpty(input[ChildTags(i, "param")[m]], "name"),
            !.unit = AttrOrEmpty(input[ChildTags(i, "param")[m]], "unit"),
            !.value = TextOf(ChildTags(i, "param")[m])]]

\* C31: the Shop of the returned catalog holds, for currencies, categories
\* and delivery-options, the list of the last element of that tag in the
\* shop; a returned Offer holds the lists of its last delivery-options and
\* its last pickup-options element, and one barcode and one param per
\* barcode and param element, in source order.
C31_LastListWinsPushAppends ==
    /\ \A k \in 1..Len(calls) :
          (calls[k].ret.kind = "YmlCatalog" /\ ShopLists # {})
          => /\ calls[k].ret.val.shop # <<>>
             /\ \A n \in ShopListTags :
                   calls[k].ret.val.shop[1][ListField(n)]
                     = LastList({i \in ShopLists : input[i].name = n}, SourceList)
    /\ \A k \in 1..Len(calls) :
          calls[k].ret.kind = "Offer"
          => /\ calls[k].ret.val.delivery_options
                  = LastList(DirectChildren(OfferOpen(k), "delivery-options"), SourceOptions)
             /\ calls[k].ret.val.pickup_options
                  = LastList(DirectChildren(OfferOpen(k), "pickup-options"), SourceOptions)
             /\ calls[k].ret.val.barcodes = SourceBarcodes(OfferOpen(k))
             /\ calls[k].ret.val.params = SourceParams(OfferOpen(k))

\* an Offer with two barcodes and the second of two different
\* delivery-options lists has been returned, then the catalog with the
\* second of two different currencies lists
C31_SecondListTwoBarcodes ==
    \E k \in 1..Len(calls) :
        /\ calls[k].ret.kind = "YmlCatalog"
        /\ calls[k].ret.val.shop[1].currencies
              = <<[id |-> <<"U", "S", "D">>, rate |-> <<"6", "0">>, plus |-> <<>>]>>
        /\ Cardinality({i \in ShopLists : input[i].name = "currencies"}) = 2
        /\ k > 1
        /\ calls[k - 1].ret.kind = "Offer"
        /\ calls[k - 1].ret.val.barcodes = <<<<"1">>, <<"2">>>>
        /\ Len(calls[k - 1].ret.val.delivery_options) = 1
        /\ calls[k - 1].ret.val.delivery_options[1].days = <<"4">>
        /\ Cardinality(DirectChildren(OfferOpen(k - 1), "delivery-options")) = 2

----------------------------------------------------------------------------
(* C32                                                                     *)

\* the field tags of parse_shop_field, and the field of the Shop each sets
ShopFieldTags == ShopTagNames \ {"offers"}
ShopFieldOf(n) == IF n = "delivery-options" THEN "delivery_options" ELSE n

\* the field tags lying directly in a shop element that were delivered in
\* state Shop up to position p and whose read succeeded
Extracted(p) ==
    {i \in 1..p :
        /\ input[i].type \in {"Start", "Empty"}
        /\ input[i].name \in ShopFieldTags
        /\ Encloser(i) # 0
        /\ input[Encloser(i)].name = "shop"
        /\ StateAt(CallOf(i), i) = "Shop"
        /\ ~IsErr(ParseShopField(input[i], DefaultYmlCatalog, [pos |-> i, buf |-> 0]))}

\* what the source gives for the field tag at event i
SourceField(i) ==
    IF input[i].name \in ShopListTags THEN SourceList(i) ELSE TextOf(i)

\* the Shop that the field tags E give: each field from the last tag of its
\* name, the other fields as in Shop::default()
ShopFrom(E) ==
    [f \in DOMAIN DefaultShop |->
        LET S == {i \in E : ShopFieldOf(input[i].name) = f}
        IN  IF S = {} THEN DefaultShop[f] ELSE SourceField(Max(S))]

\* C32: after every call the Shop of the catalog is unset exactly when no
\* field tag of a shop element has been read successfully so far, in any
\* shop element; otherwise each of its fields is that of the last such tag
\* of the field's name over all shop elements read so far, and the default
\* when there is none.  The returned header carries that Shop.
C32_ShopPersists ==
    \A k \in 1..Len(calls) :
        /\ calls[k].cat.shop = <<>> <=> Extracted(calls[k].to) = {}
        /\ calls[k].cat.shop # <<>>
           => calls[k].cat.shop[1] = ShopFrom(Extracted(calls[k].to))
        /\ calls[k].ret.kind = "YmlCatalog" => calls[k].ret.val = calls[k].cat

\* the header has been returned after two shop elements: the currencies of
\* the first, the company and the name of the second
C32_FieldsOfTwoShops ==
    \E k \in 1..Len(calls) :
        /\ calls[k].ret.kind = "YmlCatalog"
        /\ Cardinality(ShopOpens) = 2
        /\ calls[k].ret.val.shop # <<>>
        /\ calls[k].ret.val.shop[1].name = <<"T">>
        /\ calls[k].ret.val.shop[1].company = <<"C">>
        /\ Len(calls[k].ret.val.shop[1].currencies) = 1
        /\ Cardinality(ShopFields("name", pos)) = 2

----------------------------------------------------------------------------
(* C33                                                                     *)

\* the self-closing `offers` tags delivered in state Shop
EmptyOffers ==
    {i \in 1..pos :
        input[i].type = "Empty" /\ input[i].name = "offers"
        /\ StateAt(CallOf(i), i) = "Shop"}

\* the first `offers` close tag after event i; 0 when there is none
OffersCloseAfter(i) ==
    LET S == {j \in (i + 1)..Len(input) : IsClose(j, "offers")}
    IN  IF S = {} THEN 0 ELSE Min(S)

\* the assignments to self.state made so far, in any call
Assignments ==
    UNION {{calls[k].trace[n] : n \in 1..Len(calls[k].trace)} : k \in 1..Len(calls)}

\* C33: a self-closing `offers` tag delivered in state Shop moves the state
\* to Offers at that tag, as an open tag does; the state is not assigned
\* again before an `offers` close tag, so every event after the tag and
\* before such a close tag, shop and catalog close tags included, is
\* delivered in state Offers; when no `offers` close tag follows, no call
\* returns the catalog or Eof, and the call that reaches the end of the
\* input returns the Xml error of the end of input, in state Offers.
C33_EmptyOffersEntersOffers ==
    /\ \A i \in 1..pos :
          (IsOpen(i, "offers") /\ StateAt(CallOf(i), i) = "Shop")
          => [from |-> "Shop", to |-> "Offers", pos |-> i] \in Assignments
    /\ \A i \in EmptyOffers :
        /\ [from |-> "Shop", to |-> "Offers", pos |-> i] \in Assignments
        /\ \A e \in Assignments :
              e.pos > i => /\ OffersCloseAfter(i) # 0
                           /\ e.pos >= OffersCloseAfter(i)
                           /\ e.pos = OffersCloseAfter(i)
                              => (e.from = "Offers" /\ e.to = "Shop")
        /\ \A j \in (i + 1)..pos :
              (OffersCloseAfter(i) = 0 \/ j <= OffersCloseAfter(i))
              => StateAt(CallOf(j), j) = "Offers"
        /\ OffersCloseAfter(i) = 0
           => \A k \in CallOf(i)..Len(calls) :
                 /\ calls[k].ret.kind \notin {"YmlCatalog", "Eof"}
                 /\ calls[k].after = "Offers"
                 /\ calls[k].to = Len(input) => EndOfInput(k)

\* after <offers/> the shop and the catalog close tags were delivered in
\* state Offers, and the call returned the Xml error of the end of input
C33_CloseTagsPassedThenEof ==
    \E i \in EmptyOffers :
        /\ i + 2 = Len(input)
        /\ IsClose(i + 1, "shop")
        /\ IsClose(i + 2, "yml_catalog")
        /\ pos = Len(input)
        /\ state = "Offers"
        /\ EndOfInput(Len(calls))
        /\ HeaderCalls = {}

====
